---- MODULE Spec2Model ----
(***************************************************************************)
(* Model of the packing engine of src/optimizer.py: Item, Container,       *)
(* Container.get_all_valid_anchors / find_best_fit, the three placement    *)
(* strategies and the trial scorer of solve_packing, and                   *)
(* get_container_stats.                                                    *)
(*                                                                         *)
(* Numbers are integers (lengths and widths in the unit of the input,      *)
(* heights in HDen-ths of it, weights in the unit of the input); quotients *)
(* are kept exact as pairs <<num, den>>.  Python float rounding is not     *)
(* modelled.  The display colour of an Item has no packing semantics and   *)
(* is left out.                                                            *)
(***************************************************************************)
EXTENDS Integers, Sequences, FiniteSets, TLC

\* ------------------------------------------------------------------------
\* Program constants
\* ------------------------------------------------------------------------
EPSILON == 1

\* the scorer's volume tolerance 1e-5, as 1 / VolTolDen
VolTolDen == 100000

\* float(height): a height is kept as a whole number of HDen-ths of the unit
\* of the input, so that heights, and with them volumes, can differ by less
\* than the scorer's tolerance
HDen == 1000000

\* EPSILON on the height axis
EpsZ == EPSILON * HDen

\* the scorer's volume tolerance in the unit of vol (area times height)
VolTol == HDen \div VolTolDen

\* ------------------------------------------------------------------------
\* Bounds of the explored inputs
\* ------------------------------------------------------------------------
\* most item instances submitted, and most Monte Carlo iterations
MaxItems == 3
MaxSim == 1

\* most rows of items_data: half the instances, rounded up
MaxRows == (MaxItems + 1) \div 2

\* the containers: the caller's number inputs have no lower limit, so a
\* negative and a zero length are included
ContainerLengths == {-1, 0, 4, 6}
ContainerWidths == {4, 6}
ContainerHeights == {3 * HDen}
Capacities == {3, 20000}

\* the item types (l, w, h, weight), all in the unit of the input: a flat
\* item no thicker than EPSILON, items that fit several times, an item one
\* unit longer than the short container, the exact fits of the containers,
\* an item heavier than the small capacity, and an item larger than every
\* container on every axis
ItemTypes ==
    {<<1, 1, 1, 1>>, <<2, 2, 2, 2>>, <<3, 2, 2, 1>>, <<5, 2, 2, 1>>,
     <<4, 4, 3, 2>>, <<6, 4, 3, 1>>, <<4, 6, 3, 1>>, <<2, 3, 2, 4>>,
     <<8, 8, 5, 1>>}

\* ------------------------------------------------------------------------
\* Small helpers
\* ------------------------------------------------------------------------
Max(a, b) == IF a >= b THEN a ELSE b

Min(a, b) == IF a <= b THEN a ELSE b

Abs(a) == IF a >= 0 THEN a ELSE -a

\* lexicographic "<" of two tuples of numbers of the same length
\* (Python's tuple comparison)
RECURSIVE TupleLess(_, _)
TupleLess(s, t) ==
    IF s = <<>> \/ t = <<>> THEN s = <<>> /\ t # <<>>
    ELSE IF Head(s) < Head(t) THEN TRUE
    ELSE IF Head(s) > Head(t) THEN FALSE
    ELSE TupleLess(Tail(s), Tail(t))

\* exact quotients: <<n, d>> stands for n / d, d # 0
RatNorm(q) == IF q[2] < 0 THEN <<-q[1], -q[2]>> ELSE q

RatLess(p, q) == RatNorm(p)[1] * RatNorm(q)[2] < RatNorm(q)[1] * RatNorm(p)[2]

RatLeq(p, q) == RatNorm(p)[1] * RatNorm(q)[2] <= RatNorm(q)[1] * RatNorm(p)[2]

RatEq(p, q) == p[1] * q[2] = q[1] * p[2]

RatAdd(p, q) == <<p[1] * q[2] + q[1] * p[2], p[2] * q[2]>>

RatSub(p, q) == <<p[1] * q[2] - q[1] * p[2], p[2] * q[2]>>

RatAbs(p) == <<Abs(p[1]), Abs(p[2])>>

\* a quotient in lowest terms
RECURSIVE GCD(_, _)
GCD(a, b) == IF b = 0 THEN Abs(a) ELSE GCD(b, a % Abs(b))

RatReduce(q) ==
    LET g == GCD(q[1], q[2]) IN
    IF g = 0 THEN q ELSE <<q[1] \div g, q[2] \div g>>

RECURSIVE SumSeq(_)
SumSeq(s) == IF s = <<>> THEN 0 ELSE Head(s) + SumSeq(Tail(s))

RECURSIVE RatSumSeq(_)
RatSumSeq(s) == IF s = <<>> THEN <<0, 1>> ELSE RatAdd(Head(s), RatSumSeq(Tail(s)))

\* s without its k-th element (list.pop(k-1))
Pop(s, k) == SubSeq(s, 1, k - 1) \o SubSeq(s, k + 1, Len(s))

\* ------------------------------------------------------------------------
\* Item
\* ------------------------------------------------------------------------
Item(name, length, width, height, weight) ==
    [name |-> name, l |-> length, w |-> width, h |-> height, weight |-> weight,
     x |-> 0, y |-> 0, z |-> 0, rotation |-> 0]

\* the footprint taken for the volume
vol_without_height(item) == item.l * item.w

vol(item) == item.l * item.w * item.h

base_area(item) == item.l * item.w

get_dimension(item) ==
    IF item.rotation = 1 THEN <<item.w, item.l, item.h>>
    ELSE <<item.l, item.w, item.h>>

\* ------------------------------------------------------------------------
\* Container
\* ------------------------------------------------------------------------
Container(length, width, height, max_weight) ==
    [L |-> length, W |-> width, H |-> height, max_weight |-> max_weight,
     current_weight |-> 0, items |-> <<>>, unpacked_items |-> <<>>]

unique_x(c, start_x_limit) ==
    {0, c.L, start_x_limit}
        \cup {c.items[k].x : k \in DOMAIN c.items}
        \cup {c.items[k].x + get_dimension(c.items[k])[1] : k \in DOMAIN c.items}

unique_y(c) ==
    {0, c.W}
        \cup {c.items[k].y : k \in DOMAIN c.items}
        \cup {c.items[k].y + get_dimension(c.items[k])[2] : k \in DOMAIN c.items}

\* candidate heights that include the tops of the placed items
unique_z_with_tops(c) ==
    {0} \cup {c.items[k].z + get_dimension(c.items[k])[3] : k \in DOMAIN c.items}

unique_z(c) == {0}

\* the bound tests without the tolerance
InBounds_strict(c, p, dim, start_x_limit, end_x_limit) ==
    /\ ~(p[1] < start_x_limit \/ p[1] > end_x_limit - dim[1])
    /\ p[2] + dim[2] <= c.W
    /\ p[3] + dim[3] <= c.H

\* lines 70-76: the bound tests of a candidate point
InBounds(c, p, dim, start_x_limit, end_x_limit) ==
    /\ ~(p[1] < start_x_limit - EPSILON \/ p[1] > (end_x_limit - dim[1]) + EPSILON)
    /\ p[1] + dim[1] <= end_x_limit + EPSILON
    /\ p[2] + dim[2] <= c.W + EPSILON
    /\ p[3] + dim[3] <= c.H + EpsZ

anchor_points(c, item, start_x_limit, end_x_limit) ==
    {p \in unique_x(c, start_x_limit) \X unique_y(c) \X unique_z(c) :
        InBounds(c, p, get_dimension(item), start_x_limit, end_x_limit)}

\* the collision test with the placed item's dimensions taken as given,
\* its rotation ignored
Collision_unrotated(p, dim, other) ==
    LET o == <<other.l, other.w, other.h>> IN
    /\ p[1] < other.x + o[1] - EPSILON /\ p[1] + dim[1] > other.x + EPSILON
    /\ p[2] < other.y + o[2] - EPSILON /\ p[2] + dim[2] > other.y + EPSILON
    /\ p[3] < other.z + o[3] - EpsZ /\ p[3] + dim[3] > other.z + EpsZ

\* lines 85-87: the collision test of a candidate point against one placed item
Collision(p, dim, other) ==
    LET o == get_dimension(other) IN
    /\ p[1] < other.x + o[1] - EPSILON /\ p[1] + dim[1] > other.x + EPSILON
    /\ p[2] < other.y + o[2] - EPSILON /\ p[2] + dim[2] > other.y + EPSILON
    /\ p[3] < other.z + o[3] - EpsZ /\ p[3] + dim[3] > other.z + EpsZ

gap_metric(c, p, dim, end_x_limit) ==
    (end_x_limit - (p[1] + dim[1])) + (c.W - (p[2] + dim[2]))

\* a sort key of the height and the primary axis only
sort_key_primary_only(p, gap, axis_priority) ==
    IF axis_priority = "x" THEN <<p[3], p[1]>> ELSE <<p[3], p[2]>>

\* the sort key of axis priority x, whatever the priority asked for
sort_key_x_first(p, gap, axis_priority) == <<p[3], p[1], p[2], gap>>

sort_key(p, gap, axis_priority) ==
    IF axis_priority = "x" THEN <<p[3], p[1], p[2], gap>>
    ELSE <<p[3], p[2], p[1], gap>>

\* the entries (sort_key, (x, y, z), gap_metric) of valid_anchors, as a set:
\* the order in which the code appends them is the iteration order of a set
valid_anchors(c, item, start_x_limit, end_x_limit, axis_priority) ==
    LET dim == get_dimension(item) IN
    {[key |-> sort_key(p, gap_metric(c, p, dim, end_x_limit), axis_priority),
      pos |-> p,
      gap |-> gap_metric(c, p, dim, end_x_limit)] :
        p \in {q \in anchor_points(c, item, start_x_limit, end_x_limit) :
                 \A k \in DOMAIN c.items : ~Collision(q, dim, c.items[k])}}

\* the entries that the stable sort of line 104 can leave in front: those of
\* least sort key.  Entries of equal key keep the set's iteration order,
\* which the language does not fix, so each of them can be first.
first_anchors(c, item, start_x_limit, end_x_limit, axis_priority) ==
    LET va == valid_anchors(c, item, start_x_limit, end_x_limit, axis_priority) IN
    {a \in va : \A b \in va : ~TupleLess(b.key, a.key)}

\* float('inf')
Infinity == 1000000

\* find_best_fit with the default limits: the possible results (anchor, gap);
\* anchor <<>> stands for None
find_best_fit(c, item, axis_priority) ==
    LET fa == first_anchors(c, item, 0, c.L, axis_priority) IN
    IF fa = {} THEN {[anchor |-> <<>>, gap |-> Infinity]}
    ELSE {[anchor |-> a.pos, gap |-> a.gap] : a \in fa}

\* len(anchors) of a call with the default limits
anchor_count(c, item, axis_priority) ==
    Cardinality(valid_anchors(c, item, 0, c.L, axis_priority))

\* no weight pre-check
WeightExceeded_never(c, item) == FALSE

\* a pre-check of the container's weight without the item's
WeightExceeded_without_item(c, item) == c.current_weight > c.max_weight

\* a pre-check that also refuses an item that fills the budget exactly
WeightExceeded_at_limit(c, item) == c.current_weight + item.weight >= c.max_weight

\* the weight pre-check of lines 171, 227 and 285
WeightExceeded(c, item) == c.current_weight + item.weight > c.max_weight

Rotated(item, rot) == [item EXCEPT !.rotation = rot]

\* lines 203-207, 247-251, 311-313: commit an item at a position
Commit(c, item, rot, p) ==
    [c EXCEPT !.items = Append(@, [item EXCEPT !.rotation = rot,
                                               !.x = p[1], !.y = p[2], !.z = p[3]]),
              !.current_weight = @ + item.weight]

\* the pool after a scan of the deterministic strategies: every item that
\* passed the weight pre-check was left with rotation = 1 by "for rot in [0, 1]"
Scanned(c, pool) ==
    [k \in DOMAIN pool |->
        IF WeightExceeded(c, pool[k]) THEN pool[k] ELSE Rotated(pool[k], 1)]

\* the items for which the anchor search ran in a scan of pool, and the
\* container weight the scan saw
SearchedItems(c, pool) ==
    [current_weight |-> c.current_weight,
     items |-> {pool[k] : k \in {j \in DOMAIN pool : ~WeightExceeded(c, pool[j])}}]

\* ------------------------------------------------------------------------
\* Global_Scarcity_Fit, one round of the while loop (lines 168-207)
\* ------------------------------------------------------------------------
\* lines 173-188: the possible values of best_move_for_this_item, <<rot, pos>>
best_move_for_this_item(c, item, axis_p_) ==
    LET a0 == first_anchors(c, Rotated(item, 0), 0, c.L, axis_p_)
        a1 == first_anchors(c, Rotated(item, 1), 0, c.L, axis_p_)
    IN  IF a0 = {} THEN {<<1, b.pos>> : b \in a1}
        ELSE IF a1 = {} THEN {<<0, a.pos>> : a \in a0}
        ELSE {IF TupleLess(b.pos, a.pos) THEN <<1, b.pos>> ELSE <<0, a.pos>> :
                 a \in a0, b \in a1}

total_valid_spots(c, item, axis_p_) ==
    anchor_count(c, Rotated(item, 0), axis_p_) + anchor_count(c, Rotated(item, 1), axis_p_)

\* the possible lists scarcity_scores for the pool items idx..len (idx from 1)
RECURSIVE scarcity_scores(_, _, _, _)
scarcity_scores(c, pool, axis_p_, idx) ==
    IF idx > Len(pool) THEN {<<>>}
    ELSE LET rest == scarcity_scores(c, pool, axis_p_, idx + 1)
             item == pool[idx]
             moves == best_move_for_this_item(c, item, axis_p_)
         IN  IF WeightExceeded(c, item) \/ moves = {} THEN rest
             ELSE {<<[spots |-> total_valid_spots(c, item, axis_p_),
                      neg_area |-> -base_area(item),
                      idx |-> idx, rot |-> m[1], pos |-> m[2]]>> \o r :
                      m \in moves, r \in rest}

\* a sort key of the number of valid spots only
scarcity_key_spots_only(e) == <<e.spots>>

\* the sort key of line 200
scarcity_key(e) == <<e.spots, e.neg_area>>

\* lines 200-201: the first entry of the list after the stable sort
winner_info(scores) ==
    scores[CHOOSE k \in DOMAIN scores :
              \A j \in DOMAIN scores :
                  /\ ~TupleLess(scarcity_key(scores[j]), scarcity_key(scores[k]))
                  /\ (scarcity_key(scores[j]) = scarcity_key(scores[k]) => k <= j)]

\* the pass ends without recording the remaining pool
ExtendUnpacked_dropped(c, pool) == c

\* lines 195-197 and 253: the remaining pool goes to unpacked_items
ExtendUnpacked(c, pool) == [c EXCEPT !.unpacked_items = @ \o pool]

\* the possible outcomes of one round: the container, the pool, and whether
\* the loop goes on
ScarcityRound(c, pool, axis_p_) ==
    {IF scores = <<>>
        THEN [container |-> ExtendUnpacked(c, Scanned(c, pool)),
              pool |-> Scanned(c, pool), more |-> FALSE]
        ELSE LET wi == winner_info(scores) IN
             [container |-> Commit(c, pool[wi.idx], wi.rot, wi.pos),
              pool |-> Pop(Scanned(c, pool), wi.idx),
              more |-> Len(pool) > 1] :
        scores \in scarcity_scores(c, pool, axis_p_, 1)}

\* ------------------------------------------------------------------------
\* Spot_Centric_Fit, one round of the while loop (lines 220-254)
\* ------------------------------------------------------------------------
\* lines 235-239
current_metric_no_area(anchor, gap, item, axis_p_) ==
    IF axis_p_ = "x" THEN <<anchor[3], anchor[1], anchor[2], gap, 0>>
    ELSE <<anchor[3], anchor[2], anchor[1], gap, 0>>

current_metric(anchor, gap, item, axis_p_) ==
    IF axis_p_ = "x" THEN <<anchor[3], anchor[1], anchor[2], gap, -base_area(item)>>
    ELSE <<anchor[3], anchor[2], anchor[1], gap, -base_area(item)>>

\* lines 226-243: the scan over (idx, rot), call number k = 2 * (idx - 1) + rot + 1;
\* g is (global_best_metric, global_best_move, valid_move_found)
RECURSIVE spot_scan(_, _, _, _, _)
spot_scan(c, pool, axis_p_, k, g) ==
    IF k > 2 * Len(pool) THEN {g}
    ELSE LET idx == (k + 1) \div 2
             rot == (k + 1) % 2
             item == Rotated(pool[idx], rot)
         IN  IF WeightExceeded(c, item) THEN spot_scan(c, pool, axis_p_, k + 1, g)
             ELSE UNION {
                    IF r.anchor # <<>>
                          /\ TupleLess(current_metric(r.anchor, r.gap, item, axis_p_), g.metric)
                    THEN spot_scan(c, pool, axis_p_, k + 1,
                             [metric |-> current_metric(r.anchor, r.gap, item, axis_p_),
                              move |-> [idx |-> idx, rot |-> rot, pos |-> r.anchor],
                              found |-> TRUE])
                    ELSE spot_scan(c, pool, axis_p_, k + 1, g) :
                    r \in find_best_fit(c, item, axis_p_)}

NoMove == [idx |-> 0, rot |-> 0, pos |-> <<>>]

SpotRound(c, pool, axis_p_) ==
    {IF g.found
        THEN [container |-> Commit(c, pool[g.move.idx], g.move.rot, g.move.pos),
              pool |-> Pop(Scanned(c, pool), g.move.idx),
              more |-> Len(pool) > 1]
        ELSE [container |-> ExtendUnpacked(c, Scanned(c, pool)),
              pool |-> Scanned(c, pool), more |-> FALSE] :
        g \in spot_scan(c, pool, axis_p_, 1,
                 [metric |-> <<Infinity, Infinity, Infinity, Infinity, Infinity>>,
                  move |-> NoMove, found |-> FALSE])}

\* ------------------------------------------------------------------------
\* Super_Compute_Monte_Carlo: the orderings (lines 259-282) and one item of
\* the placement loop (lines 284-315)
\* ------------------------------------------------------------------------
\* list.sort(key, reverse): a stable sort, also with reverse = True; ks are
\* the keys of the elements of s
Rank(ks, k, reverse) ==
    1 + Cardinality({j \in DOMAIN ks :
            \/ (IF reverse THEN ks[j] > ks[k] ELSE ks[j] < ks[k])
            \/ (ks[j] = ks[k] /\ j < k)})

\* a sort that ignores reverse and always sorts ascending
StableSort_ascending(s, ks, reverse) ==
    [r \in DOMAIN s |-> s[CHOOSE k \in DOMAIN s : Rank(ks, k, FALSE) = r]]

StableSort(s, ks, reverse) ==
    [r \in DOMAIN s |-> s[CHOOSE k \in DOMAIN s : Rank(ks, k, reverse) = r]]

\* random.shuffle: every permutation
RECURSIVE Shuffle(_)
Shuffle(s) ==
    IF s = <<>> THEN {<<>>}
    ELSE UNION {{<<s[k]>> \o r : r \in Shuffle(Pop(s, k))} : k \in DOMAIN s}

Swap(s, i1, i2) == [s EXCEPT ![i1] = s[i2], ![i2] = s[i1]]

\* _apply_swaps with n_swaps = int(len(items) * percentage) already computed
RECURSIVE apply_swaps_n(_, _)
apply_swaps_n(items, n_swaps) ==
    IF n_swaps = 0 THEN {items}
    ELSE UNION {apply_swaps_n(Swap(items, i1, i2), n_swaps - 1) :
                    i1 \in DOMAIN items, i2 \in DOMAIN items}

\* swaps for a larger share of the items, one for every den - 1 items
_apply_swaps_more(items, den) == apply_swaps_n(items, Len(items) \div (den - 1))

\* _apply_swaps(items, 1 / den): int(len * 0.2) = len // 5, int(len * 0.1) = len // 10
_apply_swaps(items, den) == apply_swaps_n(items, Len(items) \div den)

AreaKeys(s) == [k \in DOMAIN s |-> base_area(s[k])]

\* the possible lists items_to_pack of iteration i_
items_to_pack_for(base, i_) ==
    LET mode == i_ % 6 IN
    IF mode = 0 THEN Shuffle(base)
    ELSE IF mode = 1 THEN _apply_swaps(StableSort(base, AreaKeys(base), TRUE), 5)
    ELSE IF mode = 2
        THEN _apply_swaps(StableSort(base, [k \in DOMAIN base |-> base[k].l], TRUE), 5)
    ELSE IF mode = 3
        THEN _apply_swaps(StableSort(base, [k \in DOMAIN base |-> base[k].w], TRUE), 5)
    ELSE IF mode = 4
        THEN LET sorted == StableSort(base, AreaKeys(base), TRUE)
                 split == Len(base) \div 3
             IN  {SubSeq(sorted, 1, split) \o rest :
                     rest \in Shuffle(SubSeq(sorted, split + 1, Len(sorted)))}
    ELSE _apply_swaps(StableSort(base, AreaKeys(base), FALSE), 10)

\* the states of the global generator of module random, abstracted to two;
\* a call of random.shuffle or random.randint leaves it in any of them
RandomStates == {0, 1}

\* does the ordering of iteration i_ draw from the global generator:
\* random.shuffle draws for lists of two or more, _apply_swaps for n_swaps > 0
ConsumesRandom(base, i_) ==
    LET mode == i_ % 6 IN
    IF mode = 0 THEN Len(base) > 1
    ELSE IF mode = 4 THEN Len(base) - Len(base) \div 3 > 1
    ELSE IF mode = 5 THEN Len(base) \div 10 > 0
    ELSE Len(base) \div 5 > 0

NoFit == [pos |-> <<>>, rot |-> 0, gap |-> 0]

\* lines 295-306: is the anchor of the current rotation better than best_fit_trial
is_better(pos, best_fit_trial, axis_p_) ==
    IF best_fit_trial.pos = <<>> THEN TRUE
    ELSE LET b == best_fit_trial.pos IN
         IF pos[3] < b[3] THEN TRUE
         ELSE IF pos[3] = b[3]
             THEN IF axis_p_ = "x"
                     THEN pos[1] < b[1] \/ (pos[1] = b[1] /\ pos[2] < b[2])
                     ELSE pos[2] < b[2] \/ (pos[2] = b[2] /\ pos[1] < b[1])
         ELSE FALSE

\* lines 289-307 for the results r0, r1 of find_best_fit in rotations 0 and 1
best_fit_trial_of(r0, r1, axis_p_) ==
    LET b0 == IF r0.anchor # <<>> THEN [pos |-> r0.anchor, rot |-> 0, gap |-> r0.gap]
              ELSE NoFit
    IN  IF r1.anchor # <<>> /\ is_better(r1.anchor, b0, axis_p_)
        THEN [pos |-> r1.anchor, rot |-> 1, gap |-> r1.gap]
        ELSE b0

\* the possible containers after the loop body ran for one item
MonteCarloItem(c, item, axis_p_) ==
    IF WeightExceeded(c, item)
    THEN {[c EXCEPT !.unpacked_items = Append(@, item)]}
    ELSE {LET bft == best_fit_trial_of(r0, r1, axis_p_) IN
          IF bft.pos # <<>> THEN Commit(c, item, bft.rot, bft.pos)
          ELSE [c EXCEPT !.unpacked_items = Append(@, Rotated(item, 1))] :
             r0 \in find_best_fit(c, Rotated(item, 0), axis_p_),
             r1 \in find_best_fit(c, Rotated(item, 1), axis_p_)}

\* ------------------------------------------------------------------------
\* Trial scorer (lines 114-125, 317-345)
\* ------------------------------------------------------------------------
\* twice weight_nose of calculate_balance_score: the midpoints are compared
\* doubled, x + l / 2 < L / 2  iff  2 x + l < L
RECURSIVE weight_nose_2(_, _)
weight_nose_2(c, k) ==
    IF k > Len(c.items) THEN 0
    ELSE LET item == c.items[k]
             item_mid_2 == 2 * item.x + get_dimension(item)[1]
         IN  (IF item_mid_2 < c.L THEN 2 * item.weight
              ELSE IF item_mid_2 = c.L THEN item.weight
              ELSE 0) + weight_nose_2(c, k + 1)

\* the ratio without the half weight of the centred items
balance_ratio_no_half(c) ==
    <<100 * SumSeq([k \in DOMAIN c.items |->
                      IF 2 * c.items[k].x + get_dimension(c.items[k])[1] < c.L
                      THEN c.items[k].weight ELSE 0]),
      c.current_weight>>

\* balance_ratio = weight_nose / current_weight * 100 (current_weight # 0)
balance_ratio(c) == <<50 * weight_nose_2(c, 1), c.current_weight>>

\* the first component of the pair calculate_balance_score returns
balance_diff(c) == RatAbs(RatSub(<<50, 1>>, balance_ratio(c)))

\* with current_weight == 0 the function returns the float 50.0, and the
\* tuple assignment of line 320 raises TypeError
ScoreRaises(c) == c.current_weight = 0

\* no bonus for any strategy
strat_bonus_none(strat_) == <<0, 1>>

strat_bonus(strat_) == IF strat_ # "Super_Compute_Monte_Carlo" THEN <<1, 2>> ELSE <<0, 1>>

packed_vol(c) == SumSeq([k \in DOMAIN c.items |-> vol(c.items[k])])

\* lines 325-345: the new (best_container, best_item_count, best_utilization,
\* best_balance_diff); best_container is <<>> for None
Scored(b, c, strat_) ==
    LET packed_count == Len(c.items)
        pv == packed_vol(c)
        current_score == RatSub(balance_diff(c), strat_bonus(strat_))
    IN  IF b.container = <<>>
            THEN [container |-> <<c>>, count |-> packed_count, util |-> pv,
                  bal |-> current_score]
        ELSE IF packed_count > b.count
            THEN [container |-> <<c>>, count |-> packed_count, util |-> pv,
                  bal |-> current_score]
        ELSE IF packed_count = b.count
            THEN IF pv - b.util > VolTol
                    THEN [b EXCEPT !.container = <<c>>, !.util = pv, !.bal = current_score]
                 ELSE IF Abs(pv - b.util) < VolTol
                    THEN IF RatLess(current_score, b.bal)
                            THEN [b EXCEPT !.container = <<c>>, !.bal = current_score]
                            ELSE b
                 ELSE b
        ELSE b

\* ------------------------------------------------------------------------
\* get_container_stats (lines 450-524)
\* ------------------------------------------------------------------------
\* lines 474-475, 483-484, 492-493: the part of the extent [start, start + extent]
\* that lies in [0, full / 2], as a fraction of the extent (overlap and
\* midpoint doubled)
\* a binary assignment: the whole extent counts for the side its midpoint is on
ratio_near_binary(start, extent, full) ==
    IF 2 * start + extent < full THEN <<1, 1>> ELSE <<0, 1>>

ratio_near(start, extent, full) ==
    LET overlap_2 == Max(0, Min(full, 2 * (start + extent)) - Max(0, 2 * start)) IN
    IF extent > 0 THEN <<overlap_2, 2 * extent>>
    ELSE IF 2 * start < full THEN <<1, 1>> ELSE <<0, 1>>

ratio_nose(c, item) == ratio_near(item.x, get_dimension(item)[1], c.L)

ratio_left(c, item) == ratio_near(item.y, get_dimension(item)[2], c.W)

ratio_bottom(c, item) == RatReduce(ratio_near(item.z, get_dimension(item)[3], c.H))

RatScale(n, q) == <<n * q[1], q[2]>>

total_weight(c) == SumSeq([k \in DOMAIN c.items |-> c.items[k].weight])

w_nose(c) ==
    RatSumSeq([k \in DOMAIN c.items |-> RatScale(c.items[k].weight, ratio_nose(c, c.items[k]))])

w_door(c) ==
    RatSumSeq([k \in DOMAIN c.items |->
        RatScale(c.items[k].weight, RatSub(<<1, 1>>, ratio_nose(c, c.items[k])))])

w_left(c) ==
    RatSumSeq([k \in DOMAIN c.items |-> RatScale(c.items[k].weight, ratio_left(c, c.items[k]))])

w_right(c) ==
    RatSumSeq([k \in DOMAIN c.items |->
        RatScale(c.items[k].weight, RatSub(<<1, 1>>, ratio_left(c, c.items[k])))])

w_bottom(c) ==
    RatSumSeq([k \in DOMAIN c.items |-> RatScale(c.items[k].weight, ratio_bottom(c, c.items[k]))])

w_top(c) ==
    RatSumSeq([k \in DOMAIN c.items |->
        RatScale(c.items[k].weight, RatSub(<<1, 1>>, ratio_bottom(c, c.items[k])))])

\* lines 499-501: side weight / total_weight * 100, or 50.0
balance_ratio_of(side, total) ==
    IF total > 0 THEN <<100 * side[1], side[2] * total>> ELSE <<50, 1>>

total_vol(c) == c.L * c.W * c.H

\* line 509 divides by total_vol: ZeroDivisionError for a container of volume 0
StatsRaises(c) == total_vol(c) = 0

\* used_vol / total_vol * 100
volume_utilization(c) == <<packed_vol(c), total_vol(c) \div 100>>

get_container_stats(c) ==
    [packed_count |-> Len(c.items),
     unpacked_count |-> Len(c.unpacked_items),
     weight_total |-> total_weight(c),
     weight_limit |-> c.max_weight,
     weight_utilization |->
        IF c.max_weight > 0 THEN <<100 * total_weight(c), c.max_weight>> ELSE <<0, 1>>,
     volume_utilization |-> volume_utilization(c),
     weight_nose |-> w_nose(c), weight_door |-> w_door(c),
     weight_left |-> w_left(c), weight_right |-> w_right(c),
     weight_bottom |-> w_bottom(c), weight_top |-> w_top(c),
     balance_ratio_len |-> balance_ratio_of(w_nose(c), total_weight(c)),
     balance_ratio_width |-> balance_ratio_of(w_left(c), total_weight(c)),
     balance_ratio_height |-> balance_ratio_of(w_bottom(c), total_weight(c))]

\* ------------------------------------------------------------------------
\* State
\* ------------------------------------------------------------------------
VARIABLES
    container_l, container_w, container_h,   \* arguments of solve_packing
    items_data, max_weight_kg, n_simulations,
    base_items_raw,                          \* the expanded item instances
    strat, i, axis_p,                        \* the loop variables of lines 150-159
    trial_container,                         \* the container of the running trial
    items_pool,                              \* the pool of the deterministic strategies
    items_to_pack,                           \* the items Monte Carlo has still to attempt
    searched,                                \* the items the last round searched anchors for
    best_container, best_item_count,         \* the scorer's bookkeeping
    best_utilization, best_balance_diff,
    stats,                                   \* the result of get_container_stats, <<>> before
    pc,                                      \* position in solve_packing and its caller
    random_state,                            \* the state of the global random generator
    rerun_container, rerun_pool, rerun_pc,   \* a second run of the same pass
    trial_obj,                               \* the object trial_container refers to
    best_obj,                                \* the object best_container refers to, 0 for None
    trial_log,                               \* the trials scored so far, in order
    container_items,                         \* the rows of the packing list (app.py)
    temp_items,                              \* test_simulation: the item objects, a list per strategy begun
    trial,                                   \* test_simulation: the container of the running trial
    strat_name, start_ratio,                 \* test_simulation: the loop variables
    produced                                 \* test_simulation: the items of best_container as its trial left them

args == <<container_l, container_w, container_h, items_data, max_weight_kg,
          n_simulations, base_items_raw, container_items>>

loop == <<strat, i, axis_p>>

best == <<best_container, best_item_count, best_utilization, best_balance_diff>>

rerun == <<rerun_container, rerun_pool, rerun_pc>>

objs == <<trial_obj, best_obj>>

sim == <<temp_items, trial, strat_name, start_ratio, produced>>

\* test_simulation.solve_packing is not running
SimIdle ==
    /\ temp_items = <<>>
    /\ trial = <<>>
    /\ strat_name = 0
    /\ start_ratio = 0
    /\ produced = <<>>

vars == <<args, loop, trial_container, items_pool, items_to_pack, searched, best,
          stats, pc, random_state, rerun, objs, trial_log, sim>>

strategies == <<"Global_Scarcity_Fit", "Spot_Centric_Fit", "Super_Compute_Monte_Carlo">>

sub_strategies == <<"x", "y">>

\* lines 136-139: qty copies of every row, in row order
RECURSIVE Expand(_)
Expand(rows) ==
    IF rows = <<>> THEN <<>>
    ELSE LET d == Head(rows) IN
         [k \in 1..Max(0, d.qty) |-> Item(d.name, d.l, d.w, d.h, d.weight)]
             \o Expand(Tail(rows))

\* lines 166, 212, 259: fresh copies of the base items
Copies(base) ==
    [k \in DOMAIN base |->
        Item(base[k].name, base[k].l, base[k].w, base[k].h, base[k].weight)]

Inputs ==
    /\ container_l \in ContainerLengths
    /\ container_w \in ContainerWidths
    /\ container_h \in ContainerHeights
    /\ max_weight_kg \in Capacities
    /\ \E n \in 1..MaxRows : \E t \in [1..n -> ItemTypes] : \E q \in [1..n -> 1..MaxItems] :
          /\ SumSeq(q) <= MaxItems
          /\ items_data = [k \in 1..n |->
                [name |-> k, l |-> t[k][1], w |-> t[k][2], h |-> t[k][3] * HDen,
                 weight |-> t[k][4], qty |-> q[k]]]
    /\ base_items_raw = Expand(items_data)

\* an input whose three trials differ in volume by less and by more than the
\* scorer's tolerance: one instance each of 7 x 3 x 2.000008, 10 x 2 x 2.100008
\* and 6 x 3 x 2.333343 in a 10 x 5 x 5 container that carries one of them
FineTypes == <<<<7, 3, 2000008, 1>>, <<10, 2, 2100008, 1>>, <<6, 3, 2333343, 1>>>>

FineInputs ==
    /\ container_l = 10
    /\ container_w = 5
    /\ container_h = 5 * HDen
    /\ max_weight_kg = 1
    /\ items_data = [k \in 1..3 |->
          [name |-> k, l |-> FineTypes[k][1], w |-> FineTypes[k][2],
           h |-> FineTypes[k][3], weight |-> FineTypes[k][4], qty |-> 1]]
    /\ base_items_raw = Expand(items_data)

Init ==
    /\ (Inputs \/ FineInputs)
    /\ n_simulations \in 0..MaxSim
    /\ strat = strategies[1]
    /\ i = 0
    /\ axis_p = sub_strategies[1]
    /\ trial_container = Container(0, 0, 0, 0)
    /\ items_pool = <<>>
    /\ items_to_pack = <<>>
    /\ searched = [current_weight |-> 0, items |-> {}]
    /\ best_container = <<>>
    /\ best_item_count = -1
    /\ best_utilization = -1 * HDen
    /\ best_balance_diff = <<100, 1>>
    /\ stats = <<>>
    /\ pc = "start"
    /\ random_state = 0
    /\ rerun_container = Container(0, 0, 0, 0)
    /\ rerun_pool = <<>>
    /\ rerun_pc = "off"
    /\ trial_obj = 0
    /\ best_obj = 0
    /\ trial_log = <<>>
    /\ container_items = <<>>
    /\ SimIdle

\* ------------------------------------------------------------------------
\* solve_packing
\* ------------------------------------------------------------------------
\* objects are numbered in the order of their construction: the constructor
\* call of line 161 yields an object that is none of the earlier ones
\* one container is made before the loops and used by every trial
NewObject_hoisted(last) == IF last = 0 THEN 1 ELSE last

NewObject(last) == last + 1

\* best_container = trial_container of lines 326-344 binds a second name to
\* the same object: what best_container shows after the object that
\* trial_container refers to (t_obj) has got the value t_val
Aliased(b_val, b_obj, t_obj, t_val) ==
    IF b_obj # 0 /\ b_obj = t_obj THEN <<t_val>> ELSE b_val

\* lines 318-323: what the scorer computes of a trial, with the trial's
\* loop variables and container object
Scoring(c, strat_, i_, axis_p_, obj) ==
    [strat |-> strat_, i |-> i_, axis_p |-> axis_p_, obj |-> obj,
     packed_count |-> Len(c.items), packed_vol |-> packed_vol(c),
     balance_diff |-> balance_diff(c),
     current_score |-> RatSub(balance_diff(c), strat_bonus(strat_))]

\* lines 161-166, 212, 259-282: a new container and new item copies; Monte
\* Carlo draws its ordering
StartTrial ==
    /\ pc = "start"
    /\ trial_obj' = NewObject(trial_obj)
    /\ trial_container' =
          Container(container_l, container_w, container_h, max_weight_kg)
    /\ best_container' = Aliased(best_container, best_obj, trial_obj', trial_container')
    /\ IF strat = "Super_Compute_Monte_Carlo"
          THEN /\ items_to_pack' \in items_to_pack_for(Copies(base_items_raw), i)
               /\ items_pool' = <<>>
          ELSE /\ items_pool' = Copies(base_items_raw)
               /\ items_to_pack' = <<>>
    /\ random_state' \in
          IF strat = "Super_Compute_Monte_Carlo" /\ ConsumesRandom(base_items_raw, i)
          THEN RandomStates ELSE {random_state}
    /\ searched' = [current_weight |-> 0, items |-> {}]
    /\ pc' = IF base_items_raw = <<>> THEN "score" ELSE "place"
    /\ UNCHANGED <<args, sim, loop, best_item_count, best_utilization, best_balance_diff,
                   stats, rerun, best_obj, trial_log>>

\* one round of the while loop of Global_Scarcity_Fit
ScarcityStep ==
    /\ pc = "place"
    /\ strat = "Global_Scarcity_Fit"
    /\ \E r \in ScarcityRound(trial_container, items_pool, axis_p) :
          /\ trial_container' = r.container
          /\ items_pool' = r.pool
          /\ pc' = IF r.more THEN "place" ELSE "score"
    /\ searched' = SearchedItems(trial_container, items_pool)
    /\ best_container' = Aliased(best_container, best_obj, trial_obj, trial_container')
    /\ UNCHANGED <<args, sim, loop, items_to_pack, best_item_count, best_utilization,
                   best_balance_diff, stats, rerun, random_state, objs, trial_log>>

\* one round of the while loop of Spot_Centric_Fit
SpotStep ==
    /\ pc = "place"
    /\ strat = "Spot_Centric_Fit"
    /\ \E r \in SpotRound(trial_container, items_pool, axis_p) :
          /\ trial_container' = r.container
          /\ items_pool' = r.pool
          /\ pc' = IF r.more THEN "place" ELSE "score"
    /\ searched' = SearchedItems(trial_container, items_pool)
    /\ best_container' = Aliased(best_container, best_obj, trial_obj, trial_container')
    /\ UNCHANGED <<args, sim, loop, items_to_pack, best_item_count, best_utilization,
                   best_balance_diff, stats, rerun, random_state, objs, trial_log>>

\* one item of the for loop of Super_Compute_Monte_Carlo
MonteCarloStep ==
    /\ pc = "place"
    /\ strat = "Super_Compute_Monte_Carlo"
    /\ trial_container' \in MonteCarloItem(trial_container, Head(items_to_pack), axis_p)
    /\ items_to_pack' = Tail(items_to_pack)
    /\ searched' = SearchedItems(trial_container, <<Head(items_to_pack)>>)
    /\ pc' = IF Len(items_to_pack) > 1 THEN "place" ELSE "score"
    /\ best_container' = Aliased(best_container, best_obj, trial_obj, trial_container')
    /\ UNCHANGED <<args, sim, loop, items_pool, best_item_count, best_utilization,
                   best_balance_diff, stats, rerun, random_state, objs, trial_log>>

\* one iteration for every strategy
iterations_one(strat_) == 1

iterations(strat_) == IF strat_ = "Super_Compute_Monte_Carlo" THEN n_simulations ELSE 1

StratIndex(strat_) == CHOOSE k \in DOMAIN strategies : strategies[k] = strat_

\* the loop headers of lines 150-159: the trial after (strat, i, axis_p), or
\* <<>> when the loops are exhausted
NextTrial ==
    IF axis_p = "x" THEN <<strat, i, "y">>
    ELSE IF i + 1 < iterations(strat) THEN <<strat, i + 1, "x">>
    ELSE LET later == {k \in DOMAIN strategies :
                         k > StratIndex(strat) /\ iterations(strategies[k]) > 0}
         IN  IF later = {} THEN <<>>
             ELSE <<strategies[CHOOSE k \in later : \A j \in later : k <= j], 0, "x">>

\* lines 317-345, then the next trial or the return of line 347
Score ==
    /\ pc = "score"
    /\ ~ScoreRaises(trial_container)
    /\ LET old == [container |-> best_container, count |-> best_item_count,
                    util |-> best_utilization, bal |-> best_balance_diff]
           b == Scored(old, trial_container, strat)
       IN  /\ best_container' = b.container
           /\ best_item_count' = b.count
           /\ best_utilization' = b.util
           /\ best_balance_diff' = b.bal
           /\ best_obj' = IF b # old THEN trial_obj ELSE best_obj
    /\ trial_log' = Append(trial_log, Scoring(trial_container, strat, i, axis_p, trial_obj))
    /\ IF NextTrial = <<>>
          THEN pc' = "done" /\ UNCHANGED loop
          ELSE /\ pc' = "start"
               /\ strat' = NextTrial[1]
               /\ i' = NextTrial[2]
               /\ axis_p' = NextTrial[3]
    /\ UNCHANGED <<args, sim, trial_container, items_pool, items_to_pack, searched,
                   stats, rerun, random_state, trial_obj>>

\* line 320 for a trial that placed nothing: TypeError leaves solve_packing
ScoreError ==
    /\ pc = "score"
    /\ ScoreRaises(trial_container)
    /\ pc' = "raised"
    /\ UNCHANGED <<args, sim, loop, trial_container, items_pool, items_to_pack,
                   searched, best, stats, rerun, random_state, objs, trial_log>>

\* the caller computes the statistics of the returned container
\* (app.py line 536)
Stats ==
    /\ pc = "done"
    /\ ~StatsRaises(best_container[1])
    /\ stats' = <<get_container_stats(best_container[1])>>
    /\ pc' = "stats"
    /\ UNCHANGED <<args, sim, loop, trial_container, items_pool, items_to_pack,
                   searched, best, rerun, random_state, objs, trial_log>>

StatsError ==
    /\ pc = "done"
    /\ StatsRaises(best_container[1])
    /\ pc' = "stats_raised"
    /\ UNCHANGED <<args, sim, loop, trial_container, items_pool, items_to_pack,
                   searched, best, stats, rerun, random_state, objs, trial_log>>

Next ==
    \/ StartTrial
    \/ ScarcityStep
    \/ SpotStep
    \/ MonteCarloStep
    \/ Score
    \/ ScoreError
    \/ Stats
    \/ StatsError

Spec == Init /\ [][Next]_vars

\* the same call under the scheduling of the interpreter: solve_packing is
\* one sequential loop nest without waits, so a step of it that can be taken
\* is taken
\* the steps of solve_packing itself, without those of its caller
EngineStep ==
    \/ StartTrial
    \/ ScarcityStep
    \/ SpotStep
    \/ MonteCarloStep
    \/ Score
    \/ ScoreError

\* the footprints of the calls followed to their end: one that fits a 4 x 4
\* floor twice, and one that never fits
LiveTypes == {<<3, 2>>, <<8, 8>>}

InitLive ==
    /\ Init
    /\ container_l = 4
    /\ container_w = 4
    /\ max_weight_kg = 3
    /\ \A k \in DOMAIN items_data : <<items_data[k].l, items_data[k].w>> \in LiveTypes

SpecLive == InitLive /\ [][EngineStep]_vars /\ WF_vars(EngineStep)

\* ------------------------------------------------------------------------
\* A deterministic pass run twice on the same input: the pass of one trial
\* (StartTrial, then ScarcityStep or SpotStep until the pass ends), and then
\* the same pass again on a new container and new copies, from any state of
\* the random generator
\* ------------------------------------------------------------------------
\* items of equal length + width and different footprint area: at the
\* same position they have the same gap, and the area decides
AreaTypes == {<<4, 1, 2, 1>>, <<3, 2, 2, 1>>, <<2, 2, 2, 2>>}

AreaInputs ==
    /\ container_l = 6
    /\ container_w = 4
    /\ container_h \in ContainerHeights
    /\ max_weight_kg \in Capacities
    /\ \E n \in 1..MaxRows : \E t \in [1..n -> AreaTypes] : \E q \in [1..n -> 1..MaxItems] :
          /\ SumSeq(q) <= MaxItems
          /\ items_data = [k \in 1..n |->
                [name |-> k, l |-> t[k][1], w |-> t[k][2], h |-> t[k][3] * HDen,
                 weight |-> t[k][4], qty |-> q[k]]]
    /\ base_items_raw = Expand(items_data)

InitTwice ==
    /\ (Inputs \/ AreaInputs)
    /\ n_simulations = 0
    /\ strat \in {"Global_Scarcity_Fit", "Spot_Centric_Fit"}
    /\ i = 0
    /\ axis_p \in {"x", "y"}
    /\ trial_container = Container(0, 0, 0, 0)
    /\ items_pool = <<>>
    /\ items_to_pack = <<>>
    /\ searched = [current_weight |-> 0, items |-> {}]
    /\ best_container = <<>>
    /\ best_item_count = -1
    /\ best_utilization = -1 * HDen
    /\ best_balance_diff = <<100, 1>>
    /\ stats = <<>>
    /\ pc = "start"
    /\ random_state = 0
    /\ rerun_container = Container(0, 0, 0, 0)
    /\ rerun_pool = <<>>
    /\ rerun_pc = "wait"
    /\ trial_obj = 0
    /\ best_obj = 0
    /\ trial_log = <<>>
    /\ container_items = <<>>
    /\ SimIdle

RerunStart ==
    /\ pc = "score"
    /\ rerun_pc = "wait"
    /\ rerun_container' =
          Container(container_l, container_w, container_h, max_weight_kg)
    /\ rerun_pool' = Copies(base_items_raw)
    /\ rerun_pc' = IF base_items_raw = <<>> THEN "score" ELSE "place"
    /\ random_state' \in RandomStates
    /\ UNCHANGED <<args, sim, loop, trial_container, items_pool, items_to_pack,
                   searched, best, stats, pc, objs, trial_log>>

RerunStep ==
    /\ rerun_pc = "place"
    /\ \E r \in IF strat = "Global_Scarcity_Fit"
                THEN ScarcityRound(rerun_container, rerun_pool, axis_p)
                ELSE SpotRound(rerun_container, rerun_pool, axis_p) :
          /\ rerun_container' = r.container
          /\ rerun_pool' = r.pool
          /\ rerun_pc' = IF r.more THEN "place" ELSE "score"
    /\ UNCHANGED <<args, sim, loop, trial_container, items_pool, items_to_pack,
                   searched, best, stats, pc, random_state, objs, trial_log>>

NextTwice ==
    \/ StartTrial
    \/ ScarcityStep
    \/ SpotStep
    \/ RerunStart
    \/ RerunStep

SpecTwice == InitTwice /\ [][NextTwice]_vars

\* ------------------------------------------------------------------------
\* The Calculate Loading Plan handler (app.py lines 504-528)
\* ------------------------------------------------------------------------
\* the longest packing list
MaxList == 2

\* the columns of a row that the handler reads
Columns == {"Length (mm)", "Width (mm)", "Height (mm)", "Weight (kg)", "Qty"}

GoodRow == [c \in Columns |-> IF c = "Weight (kg)" \/ c = "Qty" THEN 1 ELSE 2]

\* rows of the list: well-formed ones, and rows with a column missing, a
\* dimension or weight of zero or below, or a negative quantity
RowKinds ==
    {GoodRow,
     [GoodRow EXCEPT !["Length (mm)"] = 3],
     [c \in Columns \ {"Length (mm)"} |-> GoodRow[c]],
     [c \in Columns \ {"Width (mm)"} |-> GoodRow[c]],
     [GoodRow EXCEPT !["Length (mm)"] = 0],
     [GoodRow EXCEPT !["Length (mm)"] = -2],
     [GoodRow EXCEPT !["Width (mm)"] = 0],
     [GoodRow EXCEPT !["Weight (kg)"] = 0],
     [GoodRow EXCEPT !["Qty"] = -1]}

\* item.get(column) of line 510 as a condition: the column is there and its
\* number is not zero
Truthy(row, column) == column \in DOMAIN row /\ row[column] # 0

\* line 510
Passes(row) == Truthy(row, "Length (mm)") /\ Truthy(row, "Weight (kg)")

\* lines 514-521: the engine's row of a packing-list row; the name is the
\* row's place in the list
EngineRow(row, k) ==
    [name |-> k, l |-> row["Length (mm)"], w |-> row["Width (mm)"],
     h |-> row["Height (mm)"] * HDen, weight |-> row["Weight (kg)"],
     qty |-> row["Qty"]]

\* the subscripts of lines 516-519 raise KeyError for a missing column
RowRaises(row) == ~(Columns \subseteq DOMAIN row)

RECURSIVE Prepared(_, _)
Prepared(rows, k) ==
    IF k > Len(rows) THEN <<>>
    ELSE IF Passes(rows[k]) THEN <<EngineRow(rows[k], k)>> \o Prepared(rows, k + 1)
    ELSE Prepared(rows, k + 1)

InitHandler ==
    /\ container_items \in UNION {[1..n -> RowKinds] : n \in 1..MaxList}
    /\ container_l \in {0, 4}
    /\ container_w = 4
    /\ container_h = 3 * HDen
    /\ max_weight_kg = 20000
    /\ n_simulations \in 0..MaxSim
    /\ items_data = <<>>
    /\ base_items_raw = <<>>
    /\ strat = strategies[1]
    /\ i = 0
    /\ axis_p = sub_strategies[1]
    /\ trial_container = Container(0, 0, 0, 0)
    /\ items_pool = <<>>
    /\ items_to_pack = <<>>
    /\ searched = [current_weight |-> 0, items |-> {}]
    /\ best_container = <<>>
    /\ best_item_count = -1
    /\ best_utilization = -1 * HDen
    /\ best_balance_diff = <<100, 1>>
    /\ stats = <<>>
    /\ pc = "handler"
    /\ random_state = 0
    /\ rerun_container = Container(0, 0, 0, 0)
    /\ rerun_pool = <<>>
    /\ rerun_pc = "off"
    /\ trial_obj = 0
    /\ best_obj = 0
    /\ trial_log = <<>>
    /\ SimIdle

\* lines 507-528: the rows that pass line 510 go to solve_packing, which
\* expands them (optimizer.py lines 136-139); with none the handler warns
Calculate ==
    /\ pc = "handler"
    /\ LET passing == {k \in DOMAIN container_items : Passes(container_items[k])} IN
       IF \E k \in passing : RowRaises(container_items[k])
          THEN /\ pc' = "handler_raised"
               /\ UNCHANGED <<items_data, base_items_raw>>
       ELSE IF passing = {}
          THEN /\ pc' = "warned"
               /\ UNCHANGED <<items_data, base_items_raw>>
       ELSE /\ items_data' = Prepared(container_items, 1)
            /\ base_items_raw' = Expand(items_data')
            /\ pc' = "start"
    /\ UNCHANGED sim
    /\ UNCHANGED <<container_l, container_w, container_h, max_weight_kg, n_simulations,
                   container_items, loop, trial_container, items_pool, items_to_pack,
                   searched, best, stats, rerun, random_state, objs, trial_log>>

NextHandler ==
    \/ Calculate
    \/ StartTrial
    \/ ScarcityStep
    \/ SpotStep
    \/ MonteCarloStep
    \/ Score
    \/ ScoreError
    \/ Stats
    \/ StatsError

SpecHandler == InitHandler /\ [][NextHandler]_vars

\* ------------------------------------------------------------------------
\* The scorer over completed trials taken in any order (lines 317-345)
\* ------------------------------------------------------------------------
\* the items of FineInputs
FineItems == Expand([k \in 1..3 |->
    [name |-> k, l |-> FineTypes[k][1], w |-> FineTypes[k][2],
     h |-> FineTypes[k][3], weight |-> FineTypes[k][4], qty |-> 1]])

\* the container of a trial on FineInputs that has placed item k at the
\* origin and left the others unplaced
FineTrial(k) ==
    LET c == Commit(Container(10, 5, 5 * HDen, 1), FineItems[k], 0, <<0, 0, 0>>) IN
    [c EXCEPT !.unpacked_items = Pop(FineItems, k)]

\* completed trials of one call on FineInputs: those of the scarcity and
\* spot strategies and three of Monte Carlo
CompletedTrials ==
    <<[container |-> FineTrial(1), strat |-> strategies[1]],
      [container |-> FineTrial(2), strat |-> strategies[2]],
      [container |-> FineTrial(3), strat |-> strategies[3]],
      [container |-> FineTrial(1), strat |-> strategies[3]],
      [container |-> FineTrial(2), strat |-> strategies[3]]>>

\* the completed trials not scored yet
Unscored == {k \in DOMAIN CompletedTrials :
                \A j \in DOMAIN trial_log : trial_log[j].obj # k}

InitScoring ==
    /\ FineInputs
    /\ n_simulations = 0
    /\ strat = strategies[1]
    /\ i = 0
    /\ axis_p = sub_strategies[1]
    /\ trial_container = Container(0, 0, 0, 0)
    /\ items_pool = <<>>
    /\ items_to_pack = <<>>
    /\ searched = [current_weight |-> 0, items |-> {}]
    /\ best_container = <<>>
    /\ best_item_count = -1
    /\ best_utilization = -1 * HDen
    /\ best_balance_diff = <<100, 1>>
    /\ stats = <<>>
    /\ pc = "score"
    /\ random_state = 0
    /\ rerun_container = Container(0, 0, 0, 0)
    /\ rerun_pool = <<>>
    /\ rerun_pc = "off"
    /\ trial_obj = 0
    /\ best_obj = 0
    /\ trial_log = <<>>
    /\ container_items = <<>>
    /\ SimIdle

\* lines 317-345 for any of the completed trials not scored yet
ScoreAny ==
    /\ pc = "score"
    /\ \E k \in Unscored :
          LET t == CompletedTrials[k]
              old == [container |-> best_container, count |-> best_item_count,
                      util |-> best_utilization, bal |-> best_balance_diff]
              b == Scored(old, t.container, t.strat)
          IN  /\ trial_container' = t.container
              /\ strat' = t.strat
              /\ trial_obj' = k
              /\ best_container' = b.container
              /\ best_item_count' = b.count
              /\ best_utilization' = b.util
              /\ best_balance_diff' = b.bal
              /\ best_obj' = IF b # old THEN k ELSE best_obj
              /\ trial_log' = Append(trial_log, Scoring(t.container, t.strat, i, axis_p, k))
    /\ UNCHANGED <<args, sim, i, axis_p, items_pool, items_to_pack, searched, stats, pc,
                   rerun, random_state>>

NextScoring == ScoreAny

SpecScoring == InitScoring /\ [][NextScoring]_vars

\* ------------------------------------------------------------------------
\* The experimental engine of test_simulation.py: solve_packing (lines
\* 90-144) with Container.find_best_fit (lines 43-87). Lengths along x are in
\* units of 1 / XScale of the input unit, so that every start_x is a whole
\* number; y, z and the volumes are in input units
\* ------------------------------------------------------------------------
\* start_ratios = [i / 19.0 for i in range(20)]
LastRatio == 19

\* start_x = ((container_l - l) / 2) * (k / 19) is a multiple of 1 / 38
XScale == 2 * LastRatio

\* the longest item list of the experimental engine
MaxTemp == 2

\* the item types (l, w, h) and the containers of the experimental engine
SimTypes == {<<2, 2, 2>>, <<4, 4, 2>>, <<3, 2, 1>>}

SimLengths == {4, 6}

strategies_sim == <<"Area", "Ungrouped", "Shuffle_A", "Shuffle_B", "Shuffle_C">>

\* Item.__init__ (lines 7-26)
Item_sim(name, l, w, h, weight) ==
    [name |-> name, l |-> l * XScale, w |-> w, h |-> h, weight |-> weight,
     vol |-> l * w * h, base_area |-> l * w, x |-> 0, y |-> 0, z |-> 0, rotation |-> 0]

\* Item.get_dimension (lines 28-31); a rotated item has its width along x
get_dimension_sim(item) ==
    IF item.rotation = 1 THEN <<item.w * XScale, item.l \div XScale, item.h>>
    ELSE <<item.l, item.w, item.h>>

\* Container.__init__ (lines 34-41); items and unpacked_items hold references
\* to item objects, the indices of temp_items
Container_sim(L, W, H, max_weight) ==
    [L |-> L * XScale, W |-> W, H |-> H, max_weight |-> max_weight,
     current_weight |-> 0, items |-> <<>>, unpacked_items |-> <<>>]

\* the objects the container's items refer to, as they are now
PlacedObjects(c, objects) == [k \in DOMAIN c.items |-> objects[c.items[k]]]

\* lines 68-72: the item at (x, y, z) intersects a placed item
Collision_sim(placed, dim, x, y, z) ==
    \E k \in DOMAIN placed :
        LET o == placed[k]
            od == get_dimension_sim(o)
        IN  /\ x < o.x + od[1] /\ x + dim[1] > o.x
            /\ y < o.y + od[2] /\ y + dim[2] > o.y
            /\ z < o.z + od[3] /\ z + dim[3] > o.z

\* lines 74-79: above the floor, at least three of the four corners of the
\* footprint lie on items whose top is at z
Stable_sim(placed, dim, x, y, z) ==
    z > 0 =>
        LET corners == <<<<x, y>>, <<x + dim[1], y>>, <<x, y + dim[2]>>,
                         <<x + dim[1], y + dim[2]>>>>
            supporters == {k \in DOMAIN placed :
                              placed[k].z + get_dimension_sim(placed[k])[3] = z}
            valid_corners == Cardinality({n \in 1..4 :
                \E k \in supporters :
                    LET sd == get_dimension_sim(placed[k]) IN
                    /\ placed[k].x <= corners[n][1]
                    /\ corners[n][1] <= placed[k].x + sd[1]
                    /\ placed[k].y <= corners[n][2]
                    /\ corners[n][2] <= placed[k].y + sd[2]})
        IN  valid_corners >= 3

\* lines 43-83: the sort keys <<z, dist_to_wall, gap_metric, x, y>> of the
\* anchors that pass; y completes the key to the whole position
decorated_anchors(c, placed, item, start_x_limit) ==
    LET dim == get_dimension_sim(item)
        end_x_limit == c.L
        unique_x_sim == {0, c.L, start_x_limit}
                      \cup {placed[k].x : k \in DOMAIN placed}
                      \cup {placed[k].x + get_dimension_sim(placed[k])[1] : k \in DOMAIN placed}
        unique_y_sim == {0, c.W}
                      \cup {placed[k].y : k \in DOMAIN placed}
                      \cup {placed[k].y + get_dimension_sim(placed[k])[2] : k \in DOMAIN placed}
        unique_z_sim == {0} \cup {placed[k].z + get_dimension_sim(placed[k])[3] : k \in DOMAIN placed}
    IN  {<<z, Min(y, c.W - (y + dim[2])),
           (end_x_limit - (x + dim[1])) + XScale * (c.W - (y + dim[2])), x, y>> :
            <<x, y, z>> \in {a \in unique_x_sim \X unique_y_sim \X unique_z_sim :
                /\ a[1] >= start_x_limit /\ a[1] <= end_x_limit
                /\ a[1] + dim[1] <= end_x_limit
                /\ a[2] + dim[2] <= c.W
                /\ a[3] + dim[3] <= c.H
                /\ ~Collision_sim(placed, dim, a[1], a[2], a[3])
                /\ Stable_sim(placed, dim, a[1], a[2], a[3])}}

\* lines 85-87: None (<<>>) or <<metric, x, y, z>> of the first anchor in the
\* order of (z, dist_to_wall, gap_metric, x); the metric returned is z
find_best_fit_sim(c, placed, item, start_x_limit) ==
    LET d == decorated_anchors(c, placed, item, start_x_limit) IN
    IF d = {} THEN <<>>
    ELSE LET f == CHOOSE a \in d :
                    \A b \in d : ~TupleLess(SubSeq(b, 1, 4), SubSeq(a, 1, 4))
         IN  <<f[1], f[4], f[5], f[1]>>

\* lines 121-122: start_x of the first item of a trial, 0 for the others
start_x_of(c, item, idx, ratio) ==
    IF idx = 1
    THEN Max(0, ((c.L - get_dimension_sim(item)[1]) * ratio) \div XScale)
    ELSE 0

\* lines 124-125: the search from start_x, and from 0 when that finds nothing
res_of(c, placed, item, start_x) ==
    LET res == find_best_fit_sim(c, placed, item, start_x) IN
    IF res = <<>> /\ start_x > 0 THEN find_best_fit_sim(c, placed, item, 0) ELSE res

\* lines 127-130 for one rotation: best_fit is <<>> or <<metric, x, y, z, rot>>
best_fit_after(best_fit, res, rot) ==
    IF res = <<>> THEN best_fit
    ELSE IF best_fit = <<>> \/ res[4] < best_fit[4]
                \/ (res[4] = best_fit[4] /\ res[1] < best_fit[1])
         THEN <<res[1], res[2], res[3], res[4], rot>>
         ELSE best_fit

\* lines 114-137, the body of the loop for the item at idx: the new
\* temp_items and trial
TryItem(c, objects, idx, ratio) ==
    LET item == objects[idx]
        placed == PlacedObjects(c, objects)
    IN  IF c.current_weight + item.weight > c.max_weight
        THEN [temp_items |-> objects,
              trial |-> [c EXCEPT !.unpacked_items = Append(@, idx)]]
        ELSE LET item0 == [item EXCEPT !.rotation = 0]
                 item1 == [item EXCEPT !.rotation = 1]
                 b0 == best_fit_after(<<>>,
                          res_of(c, placed, item0, start_x_of(c, item0, idx, ratio)), 0)
                 b1 == best_fit_after(b0,
                          res_of(c, placed, item1, start_x_of(c, item1, idx, ratio)), 1)
             IN  IF b1 # <<>>
                 THEN [temp_items |-> [objects EXCEPT ![idx] =
                                         [item EXCEPT !.x = b1[2], !.y = b1[3],
                                                      !.z = b1[4], !.rotation = b1[5]]],
                       trial |-> [c EXCEPT !.items = Append(@, idx),
                                           !.current_weight = @ + item.weight]]
                 ELSE [temp_items |-> [objects EXCEPT ![idx] = item1],
                       trial |-> [c EXCEPT !.unpacked_items = Append(@, idx)]]

\* list.sort(key, reverse=True) on tuple keys: stable, larger keys first
sort_reverse(s, ks) ==
    [r \in DOMAIN s |->
        s[CHOOSE k \in DOMAIN s :
            r = 1 + Cardinality({j \in DOMAIN s :
                      TupleLess(ks[k], ks[j]) \/ (ks[j] = ks[k] /\ j < k)})]]

\* lines 109-110: the possible lists temp_items of a strategy; the keys of
\* the Shuffle strategies are random numbers, so any order can come out
temp_items_for(name) ==
    LET fresh == [k \in DOMAIN base_items_raw |->
                    Item_sim(base_items_raw[k].name, base_items_raw[k].l,
                             base_items_raw[k].w, base_items_raw[k].h,
                             base_items_raw[k].weight)]
    IN  IF name = "Area"
        THEN {sort_reverse(fresh, [k \in DOMAIN fresh |->
                 <<fresh[k].base_area, fresh[k].weight, fresh[k].h>>])}
        ELSE IF name = "Ungrouped"
        THEN {sort_reverse(fresh, [k \in DOMAIN fresh |->
                 <<fresh[k].vol, fresh[k].base_area, fresh[k].h>>])}
        ELSE Shuffle(fresh)

\* best_container refers to the trial of a strategy and through it to the
\* item objects of that strategy: while that strategy runs they are the
\* objects of temp_items
SharedObjects(b, name, objects) ==
    IF b # <<>> /\ b[1].strat_name = name THEN <<[b[1] EXCEPT !.objects = objects]>>
    ELSE b

InitSim ==
    /\ container_l \in SimLengths
    /\ container_w = 4
    /\ container_h = 3
    /\ max_weight_kg \in {2, 20000}
    /\ \E n \in 1..MaxTemp : \E t \in [1..n -> SimTypes] :
          items_data = [k \in 1..n |->
                [name |-> k, l |-> t[k][1], w |-> t[k][2], h |-> t[k][3],
                 weight |-> 1, qty |-> 1]]
    /\ base_items_raw = Expand(items_data)
    /\ n_simulations = 0
    /\ strat = strategies[1]
    /\ i = 0
    /\ axis_p = sub_strategies[1]
    /\ trial_container = Container(0, 0, 0, 0)
    /\ items_pool = <<>>
    /\ items_to_pack = <<>>
    /\ searched = [current_weight |-> 0, items |-> {}]
    /\ best_container = <<>>
    /\ best_item_count = -1
    /\ best_utilization = -1
    /\ best_balance_diff = <<100, 1>>
    /\ stats = <<>>
    /\ pc = "sim_strategy"
    /\ random_state = 0
    /\ rerun_container = Container(0, 0, 0, 0)
    /\ rerun_pool = <<>>
    /\ rerun_pc = "off"
    /\ trial_obj = 0
    /\ best_obj = 0
    /\ trial_log = <<>>
    /\ container_items = <<>>
    /\ temp_items = <<>>
    /\ trial = <<>>
    /\ strat_name = 1
    /\ start_ratio = 0
    /\ produced = <<>>

\* lines 108-110: a strategy begins with item objects of its own
SimStrategy ==
    /\ pc = "sim_strategy"
    /\ temp_items' \in temp_items_for(strategies_sim[strat_name])
    /\ start_ratio' = 0
    /\ pc' = "sim_trial"
    /\ random_state' \in (IF strat_name > 2 /\ Len(base_items_raw) > 0
                            THEN RandomStates ELSE {random_state})
    /\ UNCHANGED <<args, loop, trial_container, items_pool, items_to_pack, searched,
                   best, stats, rerun, objs, trial_log, trial, strat_name, produced>>

\* lines 112-113: a trial begins with a container of its own
SimTrial ==
    /\ pc = "sim_trial"
    /\ trial' = Container_sim(container_l, container_w, container_h, max_weight_kg)
    /\ i' = 1
    /\ pc' = IF temp_items = <<>> THEN "sim_score" ELSE "sim_item"
    /\ UNCHANGED <<args, strat, axis_p, trial_container, items_pool, items_to_pack,
                   searched, best, stats, random_state, rerun, objs, trial_log,
                   temp_items, strat_name, start_ratio, produced>>

\* lines 114-137: one item of the trial
SimItem ==
    /\ pc = "sim_item"
    /\ LET r == TryItem(trial, temp_items, i, start_ratio) IN
          /\ temp_items' = r.temp_items
          /\ trial' = r.trial
          /\ best_container' = SharedObjects(best_container, strat_name, r.temp_items)
    /\ i' = i + 1
    /\ pc' = IF i = Len(temp_items) THEN "sim_score" ELSE "sim_item"
    /\ UNCHANGED <<args, strat, axis_p, trial_container, items_pool, items_to_pack,
                   searched, best_item_count, best_utilization, best_balance_diff,
                   stats, random_state, rerun, objs, trial_log, strat_name,
                   start_ratio, produced>>

\* sum(i.vol for i in trial.items)
vol_sim(c, objects) == SumSeq([k \in DOMAIN c.items |-> objects[c.items[k]].vol])

\* lines 139-142 and the loop headers of lines 108 and 112
SimScore ==
    /\ pc = "sim_score"
    /\ IF vol_sim(trial, temp_items) > best_utilization
       THEN /\ best_utilization' = vol_sim(trial, temp_items)
            /\ best_container' = <<[container |-> trial, strat_name |-> strat_name,
                                    objects |-> temp_items]>>
            /\ produced' = PlacedObjects(trial, temp_items)
       ELSE UNCHANGED <<best_container, best_utilization, produced>>
    /\ IF start_ratio < LastRatio
       THEN start_ratio' = start_ratio + 1 /\ pc' = "sim_trial" /\ UNCHANGED strat_name
       ELSE IF strat_name < Len(strategies_sim)
       THEN strat_name' = strat_name + 1 /\ pc' = "sim_strategy" /\ UNCHANGED start_ratio
       ELSE pc' = "sim_done" /\ UNCHANGED <<strat_name, start_ratio>>
    /\ UNCHANGED <<args, loop, trial_container, items_pool, items_to_pack, searched,
                   best_item_count, best_balance_diff, stats, random_state, rerun,
                   objs, trial_log, temp_items, trial>>

NextSim ==
    \/ SimStrategy
    \/ SimTrial
    \/ SimItem
    \/ SimScore

SpecSim == InitSim /\ [][NextSim]_vars

\* ------------------------------------------------------------------------
\* The orderings of Super_Compute_Monte_Carlo on their own (lines 259-282)
\* ------------------------------------------------------------------------
\* the longest list of items to order
MaxPack == 5

\* item types (l, w) whose orders by area, by length and by width differ
OrderTypes == {<<2, 1>>, <<1, 3>>, <<3, 2>>}

InitOrdering ==
    /\ container_l = 6
    /\ container_w = 4
    /\ container_h = 3 * HDen
    /\ max_weight_kg = 20000
    /\ \E n \in 1..MaxPack : \E t \in [1..n -> OrderTypes] :
          items_data = [k \in 1..n |->
                [name |-> k, l |-> t[k][1], w |-> t[k][2], h |-> HDen,
                 weight |-> 1, qty |-> 1]]
    /\ base_items_raw = Expand(items_data)
    /\ n_simulations = 6
    /\ strat = strategies[3]
    /\ i \in 0..5
    /\ axis_p = sub_strategies[1]
    /\ trial_container = Container(0, 0, 0, 0)
    /\ items_pool = <<>>
    /\ items_to_pack = <<>>
    /\ searched = [current_weight |-> 0, items |-> {}]
    /\ best_container = <<>>
    /\ best_item_count = -1
    /\ best_utilization = -1 * HDen
    /\ best_balance_diff = <<100, 1>>
    /\ stats = <<>>
    /\ pc = "order"
    /\ random_state = 0
    /\ rerun_container = Container(0, 0, 0, 0)
    /\ rerun_pool = <<>>
    /\ rerun_pc = "off"
    /\ trial_obj = 0
    /\ best_obj = 0
    /\ trial_log = <<>>
    /\ container_items = <<>>
    /\ SimIdle

\* lines 259-282: the copies of the base items put in the order of mode i % 6
OrderItems ==
    /\ pc = "order"
    /\ items_to_pack' \in items_to_pack_for(Copies(base_items_raw), i)
    /\ random_state' \in (IF ConsumesRandom(base_items_raw, i)
                            THEN RandomStates ELSE {random_state})
    /\ pc' = "ordered"
    /\ UNCHANGED <<args, sim, loop, trial_container, items_pool, searched, best,
                   stats, rerun, objs, trial_log>>

NextOrdering == OrderItems

SpecOrdering == InitOrdering /\ [][NextOrdering]_vars

TypeOK ==
    pc \in {"start", "place", "score", "done", "raised", "stats", "stats_raised",
            "handler", "handler_raised", "warned"}

\* ------------------------------------------------------------------------
\* Properties
\* ------------------------------------------------------------------------
\* the containers a property speaks about: the trial container, and the
\* current best
Returned == pc \in {"done", "stats", "stats_raised"}

PassEnded == pc \in {"score", "raised"}

\* the length of the common part of [s1, s1 + e1] and [s2, s2 + e2]
OverlapLen(s1, e1, s2, e2) == Min(s1 + e1, s2 + e2) - Max(s1, s2)

\* two placed items overlap by more than EPSILON on all three axes at once
Overlap3(a, b) ==
    LET da == get_dimension(a)
        db == get_dimension(b)
    IN  /\ OverlapLen(a.x, da[1], b.x, db[1]) > EPSILON
        /\ OverlapLen(a.y, da[2], b.y, db[2]) > EPSILON
        /\ OverlapLen(a.z, da[3], b.z, db[3]) > EpsZ

NoOverlapIn(c) ==
    \A k \in DOMAIN c.items : \A j \in DOMAIN c.items :
        k # j => ~Overlap3(c.items[k], c.items[j])

\* C1: in every trial container after each placement, and in the best
\* container kept and returned, no two placed items overlap by more than
\* EPSILON on all three axes at once (effective dimensions after rotation).
C1_NoOverlap ==
    /\ NoOverlapIn(trial_container)
    /\ best_container # <<>> => NoOverlapIn(best_container[1])

\* a returned container with two placed items thicker than EPSILON that
\* share more than EPSILON of the length axis, so that only the collision
\* test on the width axis keeps them apart
C1_Witness ==
    /\ pc = "done"
    /\ \E k \in DOMAIN best_container[1].items : \E j \in DOMAIN best_container[1].items :
          LET a == best_container[1].items[k]
              b == best_container[1].items[j]
          IN  /\ k # j
              /\ a.h > EpsZ /\ b.h > EpsZ
              /\ OverlapLen(a.x, get_dimension(a)[1], b.x, get_dimension(b)[1]) > EPSILON
              /\ OverlapLen(a.y, get_dimension(a)[2], b.y, get_dimension(b)[2]) <= EPSILON

InBoundsIn(c) ==
    \A k \in DOMAIN c.items :
        LET item == c.items[k]
            dim == get_dimension(item)
        IN  /\ item.x >= 0 /\ item.y >= 0 /\ item.z >= 0
            /\ item.x + dim[1] <= c.L + EPSILON
            /\ item.y + dim[2] <= c.W + EPSILON
            /\ item.z + dim[3] <= c.H + EpsZ

\* C2: in every container solve_packing returns, every placed item has
\* x, y, z >= 0 and x + length <= L + EPSILON, y + width <= W + EPSILON,
\* z + height <= H + EPSILON (effective dimensions after rotation).
C2_InBounds == Returned => InBoundsIn(best_container[1])

ZeroZIn(c) == \A k \in DOMAIN c.items : c.items[k].z = 0

\* C3: every placed item of every trial container and of the returned
\* container has z = 0.
C3_NoStacking ==
    /\ ZeroZIn(trial_container)
    /\ best_container # <<>> => ZeroZIn(best_container[1])

\* a returned container with a placed item and an unplaced item that would
\* fit, within the height, on top of the placed one
C3_Witness ==
    /\ pc = "done"
    /\ \E k \in DOMAIN best_container[1].items :
       \E j \in DOMAIN best_container[1].unpacked_items :
          LET a == best_container[1].items[k]
              u == best_container[1].unpacked_items[j]
          IN  /\ a.h > EpsZ
              /\ a.h + u.h <= container_h + EpsZ
              /\ u.weight + best_container[1].current_weight <= max_weight_kg

WeightBudgetIn(c) ==
    /\ total_weight(c) <= c.max_weight
    /\ c.current_weight = total_weight(c)

\* C4: after every placement step of every strategy, and in the returned
\* container, the weights of the placed items sum to at most max_weight;
\* the anchor search runs only for items with current weight + weight <=
\* max_weight.
C4_WeightBudget ==
    /\ WeightBudgetIn(trial_container)
    /\ best_container # <<>> => WeightBudgetIn(best_container[1])
    /\ \A item \in searched.items :
          searched.current_weight + item.weight <= max_weight_kg

\* a pass that ended with an item left out for its weight alone: the item
\* has a valid anchor in the final container
C4_Witness ==
    /\ pc = "score"
    /\ trial_container.items # <<>>
    /\ \E j \in DOMAIN trial_container.unpacked_items :
          LET u == trial_container.unpacked_items[j] IN
          /\ WeightExceeded(trial_container, u)
          /\ u.weight <= max_weight_kg
          /\ anchor_count(trial_container, Rotated(u, 0), axis_p) > 0

\* the sum over the input rows of int(qty)
RECURSIVE SumQty(_)
SumQty(rows) == IF rows = <<>> THEN 0 ELSE Head(rows).qty + SumQty(Tail(rows))

SameInstance(a, b) ==
    a.name = b.name /\ a.l = b.l /\ a.w = b.w /\ a.h = b.h /\ a.weight = b.weight

CountLike(s, b) == Cardinality({k \in DOMAIN s : SameInstance(s[k], b)})

ConservedIn(c) ==
    /\ Len(c.items) + Len(c.unpacked_items) = SumQty(items_data)
    /\ \A k \in DOMAIN base_items_raw :
          CountLike(c.items \o c.unpacked_items, base_items_raw[k])
              = CountLike(base_items_raw, base_items_raw[k])

\* C5: when the placement pass of a trial has ended, placed + unplaced equals
\* the sum of the quantities, every instance being in exactly one of the two
\* lists; the same holds of the best container kept and returned.
C5_Conservation ==
    /\ PassEnded => ConservedIn(trial_container)
    /\ best_container # <<>> => ConservedIn(best_container[1])

\* a returned container with both placed and unplaced items
C5_Witness ==
    /\ pc = "done"
    /\ best_container[1].items # <<>>
    /\ best_container[1].unpacked_items # <<>>

\* no submitted item can be placed: in the empty container each one is too
\* heavy or has no valid anchor in either rotation
NothingPlaceable ==
    LET c == Container(container_l, container_w, container_h, max_weight_kg) IN
    \A k \in DOMAIN base_items_raw :
        \/ WeightExceeded(c, base_items_raw[k])
        \/ \A rot \in {0, 1} : \A ax \in {"x", "y"} :
              anchor_count(c, Rotated(base_items_raw[k], rot), ax) = 0

\* C6: when no item can be placed in any trial, solve_packing does not fail,
\* and the container it returns has no placed item and all instances unplaced.
C6_AllUnplacedReturned ==
    NothingPlaceable =>
        /\ pc # "raised"
        /\ Returned => /\ best_container[1].items = <<>>
                       /\ Len(best_container[1].unpacked_items) = Len(base_items_raw)

Heavy(item) == item.weight > max_weight_kg

HeavyCount(s) == Cardinality({k \in DOMAIN s : Heavy(s[k])})

\* C7: an item whose weight alone exceeds max_weight is never among the
\* placed items of any trial, and in the returned container all such
\* instances are in the unplaced list.
C7_HeavyUnplaced ==
    /\ HeavyCount(trial_container.items) = 0
    /\ best_container # <<>> => HeavyCount(best_container[1].items) = 0
    /\ Returned =>
          HeavyCount(best_container[1].unpacked_items) = HeavyCount(base_items_raw)

\* a returned container that left out a heavy item whose box fits the empty
\* container, next to lighter placed items
C7_Witness ==
    /\ pc = "done"
    /\ best_container[1].items # <<>>
    /\ \E j \in DOMAIN best_container[1].unpacked_items :
          LET u == best_container[1].unpacked_items[j] IN
          /\ Heavy(u)
          /\ anchor_count(Container(container_l, container_w, container_h, max_weight_kg),
                          Rotated(u, 0), "x") > 0

\* a single instance with the container's dimensions and a weight within
\* max_weight
ExactFitInput ==
    /\ Len(base_items_raw) = 1
    /\ base_items_raw[1].l = container_l
    /\ base_items_raw[1].w = container_w
    /\ base_items_raw[1].h = container_h
    /\ base_items_raw[1].weight <= max_weight_kg

\* C8: for a single instance with exactly the container's dimensions and a
\* weight within max_weight, solve_packing returns a container with 1 placed
\* and 0 unplaced items and get_container_stats reports a volume
\* utilization of exactly 100.
C8_ExactFit ==
    ExactFitInput =>
        /\ pc \notin {"raised", "stats_raised"}
        /\ Returned => /\ Len(best_container[1].items) = 1
                       /\ Len(best_container[1].unpacked_items) = 0
        /\ pc = "stats" => /\ stats[1].packed_count = 1
                           /\ stats[1].unpacked_count = 0
                           /\ stats[1].volume_utilization[1]
                                 = 100 * stats[1].volume_utilization[2]

C8_Witness == ExactFitInput /\ pc = "stats"

InPercentRange(q) == RatLeq(<<0, 1>>, q) /\ RatLeq(q, <<100, 1>>)

\* the extent [start, start + extent] has its middle at full / 2
Centred(start, extent, full) == 2 * start + extent = full

\* the three ratios of lines 499-501 for container c
RatiosOf(c) ==
    [len |-> balance_ratio_of(w_nose(c), total_weight(c)),
     width |-> balance_ratio_of(w_left(c), total_weight(c)),
     height |-> balance_ratio_of(w_bottom(c), total_weight(c))]

\* C9: for every returned container each of the three balance ratios of
\* get_container_stats lies in [0, 100]; for a single placed item centred on
\* the container midpoint of an axis, the ratio of that axis is exactly 50.
C9_BalanceRatios ==
    Returned =>
        LET c == best_container[1]
            r == RatiosOf(c)
        IN  /\ InPercentRange(r.len) /\ InPercentRange(r.width) /\ InPercentRange(r.height)
            /\ pc = "stats" => /\ stats[1].balance_ratio_len = r.len
                               /\ stats[1].balance_ratio_width = r.width
                               /\ stats[1].balance_ratio_height = r.height
            /\ Len(c.items) = 1 =>
                  LET item == c.items[1]
                      dim == get_dimension(item)
                  IN  /\ Centred(item.x, dim[1], c.L) => RatEq(r.len, <<50, 1>>)
                      /\ Centred(item.y, dim[2], c.W) => RatEq(r.width, <<50, 1>>)
                      /\ Centred(item.z, dim[3], c.H) => RatEq(r.height, <<50, 1>>)

\* C10: the Global Scarcity Fit pass, and the Spot-Centric Fit pass, run
\* twice on the same container, capacity, item list and axis priority place
\* the same items in the same order at the same positions with the same
\* rotations and leave the same unplaced list, whatever the states of the
\* random generator and whatever order sets iterate in.
C10_Deterministic ==
    (pc = "score" /\ rerun_pc = "score") =>
        /\ rerun_container.items = trial_container.items
        /\ rerun_container.unpacked_items = trial_container.unpacked_items

\* both runs ended, from different states of the random generator, with
\* two or more items placed and one left out
C10_Witness ==
    /\ pc = "score" /\ rerun_pc = "score"
    /\ random_state = 1
    /\ Len(rerun_container.items) >= 2
    /\ rerun_container.unpacked_items # <<>>

\* two placed items of c whose widths sum to more than W do not share more
\* than EPSILON of the length axis, and two whose lengths sum to more than L
\* do not share more than EPSILON of the width axis
NoWideRowIn(c) ==
    \A k \in DOMAIN c.items : \A j \in DOMAIN c.items :
        LET a == c.items[k]
            b == c.items[j]
            da == get_dimension(a)
            db == get_dimension(b)
        IN  k # j =>
              /\ da[2] + db[2] > c.W => OverlapLen(a.x, da[1], b.x, db[1]) <= EPSILON
              /\ da[1] + db[1] > c.L => OverlapLen(a.y, da[2], b.y, db[2]) <= EPSILON

\* C11: in every returned container, two placed items whose effective widths
\* sum to more than W have x-intervals that overlap by at most EPSILON, and
\* two whose effective lengths sum to more than L have y-intervals that
\* overlap by at most EPSILON.
C11_NoWideRow == Returned => NoWideRowIn(best_container[1])

\* ------------------------------------------------------------------------
\* The scorer's choice among the trials
\* ------------------------------------------------------------------------
\* trial a of the log is strictly better than trial b under the key of lines
\* 326-345: more placed items, then a volume greater by more than the
\* tolerance, then, the volumes being within the tolerance, a smaller score
BetterTrial(a, b) ==
    \/ a.packed_count > b.packed_count
    \/ /\ a.packed_count = b.packed_count
       /\ a.packed_vol - b.packed_vol > VolTol
    \/ /\ a.packed_count = b.packed_count
       /\ Abs(a.packed_vol - b.packed_vol) < VolTol
       /\ RatLess(a.current_score, b.current_score)

\* the logged trials whose container is the one best_container refers to
BestTrials == {k \in DOMAIN trial_log : trial_log[k].obj = best_obj}

\* C12: the returned state is the best of all trials run: no trial of the run
\* placed more items than the returned one, or as many with a volume greater by
\* more than the tolerance, or as many with a volume within the tolerance and
\* a smaller score
C12_BestOfTrials ==
    Returned =>
        \A b \in BestTrials : \A k \in DOMAIN trial_log :
            ~BetterTrial(trial_log[k], trial_log[b])

\* the trial scored last
LastTrial == trial_log[Len(trial_log)]

MonteCarlo == strategies[3]

\* the score of lines 320-323 written out: |50 - ratio| less the half point
\* of the two deterministic strategies
ScoreOf(c, strat_) ==
    RatSub(RatAbs(RatSub(<<50, 1>>, balance_ratio(c))),
           IF strat_ = MonteCarlo THEN <<0, 1>> ELSE <<1, 2>>)

\* the scoring step has replaced best_container by the trial just scored
Replaced == trial_log' # trial_log /\ best_obj' = trial_obj /\ best_obj # trial_obj

\* C13: the score a replacing trial leaves in best_balance_diff is
\* |50 - ratio| - 0.5 for the two deterministic strategies and |50 - ratio|
\* for Monte Carlo; and a Monte Carlo trial replaces a best deterministic
\* trial of the same placed count and volume only when its |50 - ratio| is
\* smaller by more than 0.5
C13_Bonus ==
    [][Replaced =>
        /\ RatEq(best_balance_diff', ScoreOf(trial_container, strat))
        /\ \A b \in BestTrials :
              ( /\ strat = MonteCarlo
                /\ trial_log[b].strat # MonteCarlo
                /\ trial_log[b].packed_count = Len(trial_container.items)
                /\ trial_log[b].packed_vol = packed_vol(trial_container) )
              => RatLess(RatAdd(balance_diff(trial_container), <<1, 2>>),
                         trial_log[b].balance_diff)]_vars

\* a first Monte Carlo trial has replaced a deterministic trial of the same
\* placed count and volume
C13_Witness ==
    /\ Len(trial_log) = 5
    /\ LastTrial.obj = best_obj
    /\ \E d \in 1..4 : /\ trial_log[d].packed_count = LastTrial.packed_count
                       /\ trial_log[d].packed_vol = LastTrial.packed_vol

\* ------------------------------------------------------------------------
\* The trials of a call
\* ------------------------------------------------------------------------
\* the call has ended: it has returned or an exception has left it
Ended == Returned \/ pc = "raised"

\* the k-th trial of a call with n simulations: two trials, x then y, for the
\* one iteration of each deterministic strategy and for each of the n
\* iterations of Monte Carlo
ExpectedTrial(k) ==
    [strat |-> IF k <= 2 THEN strategies[1] ELSE IF k <= 4 THEN strategies[2]
               ELSE MonteCarlo,
     i |-> IF k <= 4 THEN 0 ELSE (k - 5) \div 2,
     axis_p |-> IF k % 2 = 1 THEN "x" ELSE "y"]

TrialsAsExpected ==
    /\ Len(trial_log) = 2 * (2 + n_simulations)
    /\ \A k \in DOMAIN trial_log :
          /\ trial_log[k].strat = ExpectedTrial(k).strat
          /\ trial_log[k].i = ExpectedTrial(k).i
          /\ trial_log[k].axis_p = ExpectedTrial(k).axis_p
          /\ \A j \in DOMAIN trial_log : j # k => trial_log[j].obj # trial_log[k].obj

\* C14: a call runs and scores exactly two trials, x then y, for every
\* strategy and iteration, each on a container of its own: 2 * (2 + n) trials
\* for n simulations, the deterministic strategies with one iteration each
C14_TrialCount == Ended => TrialsAsExpected

\* ------------------------------------------------------------------------
\* What a trial may change
\* ------------------------------------------------------------------------
\* an item as the constructor leaves it: at the origin, unrotated
IsFresh(item) == item.x = 0 /\ item.y = 0 /\ item.z = 0 /\ item.rotation = 0

\* the step starts a trial
TrialStarts == pc = "start" /\ pc' # "start"

\* C15: a trial starts on a container object that no earlier trial used, with
\* empty placed and unplaced lists, and on items as the constructor leaves
\* them; no step of a trial changes what best_container shows (only the
\* scorer rebinds it, to the trial just run), and no step changes the
\* expanded base items
C15_FreshPerTrial ==
    [][ /\ base_items_raw' = base_items_raw
        /\ TrialStarts =>
              /\ trial_obj' # best_obj
              /\ \A k \in DOMAIN trial_log : trial_log[k].obj # trial_obj'
              /\ trial_container'.items = <<>>
              /\ trial_container'.unpacked_items = <<>>
              /\ \A k \in DOMAIN items_pool' : IsFresh(items_pool'[k])
              /\ \A k \in DOMAIN items_to_pack' : IsFresh(items_to_pack'[k])
              /\ Len(items_pool') + Len(items_to_pack') = Len(base_items_raw)
        /\ best_container' # best_container =>
              /\ trial_log' # trial_log
              /\ best_container' = <<trial_container>>
      ]_vars

\* a later trial has placed items, differently from the best trial so far
C15_Witness ==
    /\ pc = "score"
    /\ best_obj # 0
    /\ trial_obj # best_obj
    /\ trial_container.items # <<>>
    /\ trial_container.items # best_container[1].items

\* ------------------------------------------------------------------------
\* The anchor search as a function
\* ------------------------------------------------------------------------
\* the items the pass may still search for
Waiting == {items_pool[k] : k \in DOMAIN items_pool}
               \cup {items_to_pack[k] : k \in DOMAIN items_to_pack}

PlacedOf(c) == {c.items[k] : k \in DOMAIN c.items}

\* the candidate coordinates: the container's ends and the edges of the
\* placed items (the lower x-limit of the callers is 0)
XCandidates(c) ==
    {0, c.L} \cup {o.x : o \in PlacedOf(c)}
             \cup {o.x + get_dimension(o)[1] : o \in PlacedOf(c)}

YCandidates(c) ==
    {0, c.W} \cup {o.y : o \in PlacedOf(c)}
             \cup {o.y + get_dimension(o)[2] : o \in PlacedOf(c)}

\* the box of dimensions dim at p lies in the container, EPSILON allowed
WithinBounds(c, p, dim) ==
    /\ p[1] >= 0 - EPSILON /\ p[2] >= 0 - EPSILON /\ p[3] >= 0
    /\ p[1] + dim[1] <= c.L + EPSILON
    /\ p[2] + dim[2] <= c.W + EPSILON
    /\ p[3] + dim[3] <= c.H + EpsZ

\* the strict intersection test of the intervals [s1, s1 + e1] and
\* [s2, s2 + e2] with the slack eps: each begins more than eps before the
\* other ends
Intersect(s1, e1, s2, e2, eps) == s1 + eps < s2 + e2 /\ s2 + eps < s1 + e1

\* the box of dimensions dim at p and the placed item o intersect on all
\* three axes
Collides(p, dim, o) ==
    LET od == get_dimension(o) IN
    /\ Intersect(p[1], dim[1], o.x, od[1], EPSILON)
    /\ Intersect(p[2], dim[2], o.y, od[2], EPSILON)
    /\ Intersect(p[3], dim[3], o.z, od[3], EpsZ)

ValidPositions(c, item) ==
    {p \in XCandidates(c) \X YCandidates(c) \X {0} :
        /\ WithinBounds(c, p, get_dimension(item))
        /\ \A o \in PlacedOf(c) : ~Collides(p, get_dimension(item), o)}

Searches == {<<Rotated(item, rot), ax>> :
                item \in Waiting, rot \in {0, 1}, ax \in {"x", "y"}}

\* C16: for the container of a running pass and every waiting item, rotation
\* and axis priority, get_all_valid_anchors returns exactly the candidate
\* positions (x, y, 0) that are within bounds and collide with no placed
\* item, each of them once
C16_ExactAnchors ==
    pc = "place" =>
        \A s \in Searches :
            LET va == valid_anchors(trial_container, s[1], 0, trial_container.L, s[2]) IN
            /\ {a.pos : a \in va} = ValidPositions(trial_container, s[1])
            /\ Cardinality(va) = Cardinality(ValidPositions(trial_container, s[1]))

\* a search with a valid position, a candidate out of bounds and a candidate
\* that collides
C16_Witness ==
    /\ pc = "place"
    /\ \E s \in Searches :
          LET c == trial_container
              dim == get_dimension(s[1])
              cand == XCandidates(c) \X YCandidates(c) \X {0}
          IN  /\ ValidPositions(c, s[1]) # {}
              /\ \E p \in cand : ~WithinBounds(c, p, dim)
              /\ \E p \in cand : /\ WithinBounds(c, p, dim)
                                  /\ \E o \in PlacedOf(c) : Collides(p, dim, o)

\* the gap of the box of dimensions dim at p: the distances of its far edges
\* to the far walls
GapOf(c, p, dim) == (c.L - (p[1] + dim[1])) + (c.W - (p[2] + dim[2]))

\* p comes no later than q in the ascending order of (z, x, y, gap) for axis
\* priority x and of (z, y, x, gap) otherwise
NoLater(c, dim, ax, p, q) ==
    LET p1 == IF ax = "x" THEN p[1] ELSE p[2]
        p2 == IF ax = "x" THEN p[2] ELSE p[1]
        q1 == IF ax = "x" THEN q[1] ELSE q[2]
        q2 == IF ax = "x" THEN q[2] ELSE q[1]
    IN  \/ p[3] < q[3]
        \/ p[3] = q[3] /\ p1 < q1
        \/ p[3] = q[3] /\ p1 = q1 /\ p2 < q2
        \/ p[3] = q[3] /\ p1 = q1 /\ p2 = q2 /\ GapOf(c, p, dim) <= GapOf(c, q, dim)

\* C17: find_best_fit returns the valid position that is first in the
\* ascending order of (z, x, y, gap) for axis priority x and of (z, y, x, gap)
\* otherwise, with its gap (end_x_limit - (x + length)) + (W - (y + width)),
\* and (None, infinity) when no position is valid
C17_BestFit ==
    pc = "place" =>
        \A s \in Searches : \A r \in find_best_fit(trial_container, s[1], s[2]) :
            LET c == trial_container
                dim == get_dimension(s[1])
                vp == ValidPositions(c, s[1])
            IN  IF vp = {} THEN r.anchor = <<>> /\ r.gap = Infinity
                ELSE /\ r.anchor \in vp
                     /\ r.gap = GapOf(c, r.anchor, dim)
                     /\ \A q \in vp : NoLater(c, dim, s[2], r.anchor, q)

\* a search whose best fit under axis priority y is not the one under x, and
\* a search without a valid position
C17_Witness ==
    /\ pc = "place"
    /\ \E s \in Searches :
          find_best_fit(trial_container, s[1], "x")
              # find_best_fit(trial_container, s[1], "y")
    /\ \E s \in Searches : ValidPositions(trial_container, s[1]) = {}

\* ------------------------------------------------------------------------
\* Invalid rows
\* ------------------------------------------------------------------------
\* a row with a required column missing, a dimension or weight of zero or
\* below, or a negative quantity
InvalidRow(row) ==
    \/ ~(Columns \subseteq DOMAIN row)
    \/ \E c \in DOMAIN row \ {"Qty"} : row[c] <= 0
    \/ "Qty" \in DOMAIN row /\ row["Qty"] < 0

\* C18: with an invalid row in the list the caller gets an error and no
\* trial is run on the list: the handler ends in its warning or in an
\* exception of its own, and solve_packing is not entered
C18_InvalidRejected ==
    (\E k \in DOMAIN container_items : InvalidRow(container_items[k]))
        => pc \in {"handler", "warned", "handler_raised"}

\* ------------------------------------------------------------------------
\* The weight distribution of the statistics
\* ------------------------------------------------------------------------
\* twice the length of the part of [start, start + extent] within [0, full / 2]
CommonLen2(start, extent, full) ==
    LET lo == Max(2 * start, 0)
        hi == Min(2 * (start + extent), full)
    IN  IF hi > lo THEN hi - lo ELSE 0

\* weight * overlap([start, end], [0, mid]) / extent
NearShare(weight, start, extent, full) ==
    <<weight * CommonLen2(start, extent, full), 2 * extent>>

NearShares(c, axis) ==
    [k \in DOMAIN c.items |->
        LET item == c.items[k]
            dim == get_dimension(item)
        IN  IF axis = 1 THEN NearShare(item.weight, item.x, dim[1], c.L)
            ELSE IF axis = 2 THEN NearShare(item.weight, item.y, dim[2], c.W)
            ELSE RatReduce(NearShare(item.weight, item.z, dim[3], c.H))]

\* C19: in the statistics of every returned container the near side of each
\* axis carries, of each placed item, its weight times the part of its extent
\* before the container's midpoint over its extent, and the two sides of
\* each axis add up to weight_total
C19_ProportionalSplit ==
    pc = "stats" =>
        LET st == stats[1]
            c == best_container[1]
            total == <<st.weight_total, 1>>
        IN  /\ RatEq(st.weight_nose, RatSumSeq(NearShares(c, 1)))
            /\ RatEq(st.weight_left, RatSumSeq(NearShares(c, 2)))
            /\ RatEq(st.weight_bottom, RatSumSeq(NearShares(c, 3)))
            /\ RatEq(RatAdd(st.weight_nose, st.weight_door), total)
            /\ RatEq(RatAdd(st.weight_left, st.weight_right), total)
            /\ RatEq(RatAdd(st.weight_bottom, st.weight_top), total)

\* statistics of a container with an item that lies across the length
\* midpoint without being centred on it
C19_Witness ==
    /\ pc = "stats"
    /\ Len(best_container[1].items) >= 2
    /\ \E k \in DOMAIN best_container[1].items :
          LET item == best_container[1].items[k]
              len == get_dimension(item)[1]
              common == CommonLen2(item.x, len, best_container[1].L)
          IN  0 < common /\ common < 2 * len /\ common # len

\* ------------------------------------------------------------------------
\* The scorer's balance ratio
\* ------------------------------------------------------------------------
\* the item's midpoint x + length / 2 lies before, on, L / 2
MidBefore(c, item) == 2 * item.x + get_dimension(item)[1] < c.L

MidOn(c, item) == 2 * item.x + get_dimension(item)[1] = c.L

\* the item lies across L / 2: it begins before it and ends after it
Straddles(c, item) ==
    2 * item.x < c.L /\ c.L < 2 * (item.x + get_dimension(item)[1])

\* twice the weight counted for the nose when the items of Half(c, item)
\* count half and those with their midpoint before L / 2 count full
NoseWeight2(c, Half(_, _)) ==
    SumSeq([k \in DOMAIN c.items |->
              IF MidBefore(c, c.items[k]) THEN 2 * c.items[k].weight
              ELSE IF Half(c, c.items[k]) THEN c.items[k].weight
              ELSE 0])

\* the trial to score has a placed weight
Scorable == pc = "score" /\ trial_container.current_weight # 0

\* C20: the scorer's balance ratio counts the full weight of every placed
\* item whose midpoint lies before L / 2, half the weight of every placed
\* item straddling L / 2, and nothing for the others, over the placed weight,
\* times 100
C20_StraddleHalf ==
    Scorable =>
        RatEq(balance_ratio(trial_container),
              <<50 * NoseWeight2(trial_container, Straddles),
                trial_container.current_weight>>)

\* C20 amended: half the weight is counted of the items whose midpoint
\* x + length / 2 is exactly L / 2, not of every item straddling L / 2
C20_CentredHalf ==
    Scorable =>
        RatEq(balance_ratio(trial_container),
              <<50 * NoseWeight2(trial_container, MidOn),
                trial_container.current_weight>>)

\* a trial to score with an item centred on L / 2 and an item before it
C20_Witness ==
    /\ Scorable
    /\ \E k \in DOMAIN trial_container.items : MidOn(trial_container, trial_container.items[k])
    /\ \E k \in DOMAIN trial_container.items :
          MidBefore(trial_container, trial_container.items[k])

\* a trial to score with an item that straddles L / 2, its midpoint behind it
C20_StraddleBehind ==
    /\ Scorable
    /\ \E k \in DOMAIN trial_container.items :
          LET item == trial_container.items[k] IN
          /\ Straddles(trial_container, item)
          /\ ~MidBefore(trial_container, item) /\ ~MidOn(trial_container, item)

\* ------------------------------------------------------------------------
\* The scorer and the order of the trials
\* ------------------------------------------------------------------------
\* the scorer's bookkeeping after the completed trials ks, scored in that order
RECURSIVE ScoredInOrder(_)
ScoredInOrder(ks) ==
    IF ks = <<>>
    THEN [container |-> <<>>, count |-> -1, util |-> -1 * HDen, bal |-> <<100, 1>>]
    ELSE LET t == CompletedTrials[ks[Len(ks)]] IN
         Scored(ScoredInOrder(SubSeq(ks, 1, Len(ks) - 1)), t.container, t.strat)

\* C21: the container the scorer selects depends on the set of completed
\* trials only: when all of them are scored, in whatever order, the selected
\* container is the one selected when they are scored in the order 1, 2, ...
C21_OrderIndependent ==
    Unscored = {} =>
        best_container = ScoredInOrder([k \in DOMAIN CompletedTrials |-> k]).container

\* ------------------------------------------------------------------------
\* The choices of the deterministic strategies
\* ------------------------------------------------------------------------
\* the item fits the weight budget of the container
WeightEligible(c, item) == c.current_weight + item.weight <= c.max_weight

\* the number of valid anchors of the item, both rotations together
AnchorTotal(c, item) ==
    Cardinality(ValidPositions(c, Rotated(item, 0)))
        + Cardinality(ValidPositions(c, Rotated(item, 1)))

\* the pool items that can be placed
Placeable(c, pool) ==
    {k \in DOMAIN pool : WeightEligible(c, pool[k]) /\ AnchorTotal(c, pool[k]) > 0}

\* pool item k comes first by fewest anchors, then largest footprint area,
\* then lowest index
MostConstrained(c, pool, k) ==
    /\ k \in Placeable(c, pool)
    /\ \A j \in Placeable(c, pool) :
          \/ AnchorTotal(c, pool[k]) < AnchorTotal(c, pool[j])
          \/ /\ AnchorTotal(c, pool[k]) = AnchorTotal(c, pool[j])
             /\ pool[k].l * pool[k].w > pool[j].l * pool[j].w
          \/ /\ AnchorTotal(c, pool[k]) = AnchorTotal(c, pool[j])
             /\ pool[k].l * pool[k].w = pool[j].l * pool[j].w
             /\ k <= j

\* the step of a deterministic strategy places an item
Places(strat_) ==
    /\ pc = "place" /\ strat = strat_
    /\ Len(trial_container'.items) = Len(trial_container.items) + 1

\* the item the step has placed
PlacedNow == trial_container'.items[Len(trial_container'.items)]

\* the step has taken item k from the pool
Taken(k) ==
    /\ SameInstance(PlacedNow, items_pool[k])
    /\ Len(items_pool') = Len(items_pool) - 1
    /\ \A j \in DOMAIN items_pool' :
          SameInstance(items_pool'[j], Pop(items_pool, k)[j])

\* C22: a step of Global Scarcity Fit places, of the pool items that are
\* weight-eligible and have a valid anchor, the one with the fewest valid
\* anchors over both rotations, then the largest footprint area, then the
\* lowest pool index
C22_MostConstrainedFirst ==
    [][Places(strategies[1]) =>
          \E k \in DOMAIN items_pool :
              MostConstrained(trial_container, items_pool, k) /\ Taken(k)]_vars

\* a scarcity pass that has placed an item and has now to choose between two
\* placeable items of equal anchor count and different area, the larger one
\* later in the pool
C22_Witness ==
    /\ pc = "place" /\ strat = strategies[1]
    /\ trial_container.items # <<>>
    /\ \E j \in Placeable(trial_container, items_pool) :
       \E k \in Placeable(trial_container, items_pool) :
          /\ j < k
          /\ AnchorTotal(trial_container, items_pool[j])
                 = AnchorTotal(trial_container, items_pool[k])
          /\ items_pool[j].l * items_pool[j].w < items_pool[k].l * items_pool[k].w

\* position p comes strictly before q in the ranking (z, primary axis,
\* secondary axis) of the axis priority
PosBefore(ax, p, q) ==
    IF ax = "x" THEN TupleLess(<<p[3], p[1], p[2]>>, <<q[3], q[1], q[2]>>)
    ELSE TupleLess(<<p[3], p[2], p[1]>>, <<q[3], q[2], q[1]>>)

PositionOf(item) == <<item.x, item.y, item.z>>

\* the placed item lies at its own best anchor over both rotations in the
\* ranking of the axis priority, rotation 0 kept on a tie
AtOwnBestAnchor(c, ax, placed) ==
    /\ PositionOf(placed) \in ValidPositions(c, Rotated(placed, placed.rotation))
    /\ \A rot \in {0, 1} : \A q \in ValidPositions(c, Rotated(placed, rot)) :
          ~PosBefore(ax, q, PositionOf(placed))
    /\ placed.rotation = 1 =>
          PositionOf(placed) \notin ValidPositions(c, Rotated(placed, 0))

\* C23: in Global Scarcity Fit, for both axis priorities, the selected item
\* is committed at the position and rotation that minimise (z, primary axis,
\* secondary axis) over its valid anchors in both rotations, rotation 0 kept
\* on a tie
C23_OwnBestAnchor ==
    [][Places(strategies[1]) =>
          AtOwnBestAnchor(trial_container, axis_p, PlacedNow)]_vars

\* the same under axis priority x, where the comparison of line 187 on
\* (x, y, z) agrees with the ranking (z, x, y) because z is always 0
C23_OwnBestAnchorX ==
    [][Places(strategies[1]) /\ axis_p = "x" =>
          AtOwnBestAnchor(trial_container, axis_p, PlacedNow)]_vars

\* the first valid position of the (rotated) item in the ranking of the axis
\* priority
BestAnchor(c, item, ax) ==
    CHOOSE p \in ValidPositions(c, item) :
        \A q \in ValidPositions(c, item) : ~PosBefore(ax, q, p)

\* the key (z, primary, secondary, gap, -footprint area) of the (rotated) item
SpotKey(c, item, ax) ==
    LET p == BestAnchor(c, item, ax) IN
    <<p[3], IF ax = "x" THEN p[1] ELSE p[2], IF ax = "x" THEN p[2] ELSE p[1],
      GapOf(c, p, get_dimension(item)), -(item.l * item.w)>>

\* the moves open to a step of Spot-Centric Fit, <<pool index, rotation>>
SpotMoves(c, pool) ==
    {m \in (DOMAIN pool) \X {0, 1} :
        /\ WeightEligible(c, pool[m[1]])
        /\ ValidPositions(c, Rotated(pool[m[1]], m[2])) # {}}

\* move m has the smallest key, and the lowest index and then rotation among
\* the moves of that key
SmallestKey(c, pool, ax, m) ==
    /\ m \in SpotMoves(c, pool)
    /\ \A n \in SpotMoves(c, pool) :
          LET km == SpotKey(c, Rotated(pool[m[1]], m[2]), ax)
              kn == SpotKey(c, Rotated(pool[n[1]], n[2]), ax)
          IN  /\ ~TupleLess(kn, km)
              /\ kn = km => TupleLess(m, n) \/ m = n

\* C24: a step of Spot-Centric Fit commits the (item, rotation) whose key
\* (z, primary, secondary, gap, -footprint area), built from the item's best
\* anchor, is the smallest over all weight-eligible pool items and both
\* rotations, at that anchor; on equal keys the lowest pool index and then
\* rotation 0 is kept
C24_SmallestKey ==
    [][Places(strategies[2]) =>
          \E m \in SpotMoves(trial_container, items_pool) :
              /\ SmallestKey(trial_container, items_pool, axis_p, m)
              /\ Taken(m[1])
              /\ PlacedNow.rotation = m[2]
              /\ PositionOf(PlacedNow)
                    = BestAnchor(trial_container, Rotated(items_pool[m[1]], m[2]), axis_p)]_vars

\* the container before its last item was committed
BeforeLast(c) ==
    [c EXCEPT !.items = SubSeq(@, 1, Len(@) - 1),
              !.current_weight = @ - c.items[Len(c.items)].weight]

\* a spot-centric step has committed an item although an item still in the
\* pool had a move with the same position and gap and a smaller footprint
\* area, and another item in the pool had a move with the same key
C24_Witness ==
    /\ pc = "place" /\ strat = strategies[2]
    /\ trial_container.items # <<>>
    /\ LET c == BeforeLast(trial_container)
           placed == trial_container.items[Len(trial_container.items)]
           kp == SpotKey(c, placed, axis_p)
       IN  /\ \E n \in SpotMoves(c, items_pool) :
                LET kn == SpotKey(c, Rotated(items_pool[n[1]], n[2]), axis_p)
                IN  SubSeq(kn, 1, 4) = SubSeq(kp, 1, 4) /\ kn[5] > kp[5]
           /\ \E n \in SpotMoves(c, items_pool) :
                SpotKey(c, Rotated(items_pool[n[1]], n[2]), axis_p) = kp

\* ------------------------------------------------------------------------
\* The Monte Carlo orderings
\* ------------------------------------------------------------------------
\* the sort key of mode 1, 2 or 3: footprint area, length, width
ModeKey(mode, item) ==
    IF mode = 1 THEN item.l * item.w ELSE IF mode = 2 THEN item.l ELSE item.w

\* s is in descending order of the key of the mode
Descending(s, mode) ==
    \A a \in DOMAIN s : \A b \in DOMAIN s :
        a < b => ModeKey(mode, s[a]) >= ModeKey(mode, s[b])

\* s holds the base items, each once
PermutationOfBase(s) ==
    /\ Len(s) = Len(base_items_raw)
    /\ \A k \in DOMAIN base_items_raw :
          \E j \in DOMAIN s : SameInstance(s[j], base_items_raw[k])

\* s becomes a descending list by undoing at most n transpositions
RECURSIVE WithinSwaps(_, _, _)
WithinSwaps(s, mode, n) ==
    IF n = 0 THEN Descending(s, mode)
    ELSE \E i1 \in DOMAIN s : \E i2 \in DOMAIN s :
            WithinSwaps(Swap(s, i1, i2), mode, n - 1)

Ordered(modes) == pc = "ordered" /\ (i % 6) \in modes

\* C25, as stated: with i mod 6 = 1, 2, 3 the items are attempted in
\* descending order of footprint area, of length, of width
C25_SortedDescending ==
    Ordered({1, 2, 3}) => Descending(items_to_pack, i % 6)

\* C25, amended: with i mod 6 = 1, 2, 3 the order is the descending order by
\* footprint area, length, width with int(0.2 * n) transpositions of two
\* random positions applied to it, n the number of items; it is the
\* descending order itself for fewer than five items
C25_SortedThenSwapped ==
    Ordered({1, 2, 3}) =>
        /\ PermutationOfBase(items_to_pack)
        /\ WithinSwaps(items_to_pack, i % 6, Len(items_to_pack) \div 5)

\* five items in mode 1, 2 or 3 that a swap has taken out of descending order
C25_Witness ==
    /\ Ordered({1, 2, 3})
    /\ Len(items_to_pack) = 5
    /\ ~Descending(items_to_pack, i % 6)

\* the first n items of s are its largest by area, in descending order
LargestFirst(s, n) ==
    /\ Descending(SubSeq(s, 1, n), 1)
    /\ \A a \in 1..n : \A b \in (n + 1)..Len(s) :
          ModeKey(1, s[a]) >= ModeKey(1, s[b])

\* C26, as stated: with i mod 6 = 4 only the last third of the positions is
\* shuffled, the first two thirds are the largest-area items in descending
\* order
C26_TailThirdShuffled ==
    Ordered({4}) =>
        LargestFirst(items_to_pack, Len(items_to_pack) - Len(items_to_pack) \div 3)

\* C26, amended: with i mod 6 = 4 the first len // 3 positions hold the
\* largest-area items in descending order and the other positions hold the
\* remaining items in any order
C26_HeadThirdSorted ==
    Ordered({4}) =>
        /\ PermutationOfBase(items_to_pack)
        /\ LargestFirst(items_to_pack, Len(items_to_pack) \div 3)

\* mode 4 with a fixed head of one item or more and the items after the
\* head out of descending order already within the first two thirds
C26_Witness ==
    /\ Ordered({4})
    /\ Len(items_to_pack) \div 3 >= 1
    /\ ~Descending(SubSeq(items_to_pack, 1,
                      Len(items_to_pack) - Len(items_to_pack) \div 3), 1)

\* ------------------------------------------------------------------------
\* Termination
\* ------------------------------------------------------------------------
\* a round of the while loop of a deterministic strategy takes one item from
\* the pool or ends the pass
RoundProgress ==
    pc = "place" /\ strat \in {strategies[1], strategies[2]} =>
        \/ Len(items_pool') = Len(items_pool) - 1 /\ pc' \in {"place", "score"}
        \/ pc' = "score" /\ Len(items_pool') = Len(items_pool)

\* C27: every strategy pass terminates, each round of the scarcity and
\* spot-centric loops taking one item from the pool or ending the pass; the
\* call ends, and it returns only after all 2 * (2 + n_simulations) trials
\* have been scored, none skipped or cut short
C27_Terminates ==
    /\ [][RoundProgress]_vars
    /\ (pc = "place") ~> (pc = "score")
    /\ <>Ended
    /\ [](Returned => TrialsAsExpected)

\* a call with a Monte Carlo iteration has returned after a deterministic
\* pass that ended with items left in the pool
C27_Witness ==
    /\ pc = "done"
    /\ n_simulations >= 1
    /\ Len(trial_log) = 2 * (2 + n_simulations)
    /\ \E k \in DOMAIN trial_log :
          /\ trial_log[k].strat # MonteCarlo
          /\ trial_log[k].packed_count < Len(base_items_raw)

\* ------------------------------------------------------------------------
\* The end of a deterministic pass
\* ------------------------------------------------------------------------
\* the item cannot be placed in the container: it is too heavy for the
\* weight left, or it has no valid anchor in either rotation
Unplaceable(c, item) ==
    \/ c.current_weight + item.weight > c.max_weight
    \/ \A rot \in {0, 1} : ValidPositions(c, Rotated(item, rot)) = {}

DeterministicPassEnded ==
    pc = "score" /\ strat \in {strategies[1], strategies[2]}

\* C28: when a Global Scarcity Fit or Spot-Centric Fit pass has ended, every
\* unplaced item is, in the final container of the trial, over the weight
\* budget or without a valid anchor in either rotation
C28_NothingLeftPlaceable ==
    DeterministicPassEnded =>
        \A k \in DOMAIN trial_container.unpacked_items :
            Unplaceable(trial_container, trial_container.unpacked_items[k])

\* a pass has ended with items placed and with an unplaced item that is
\* within the weight budget and fits the empty container, but has no anchor
\* left
C28_Witness ==
    /\ DeterministicPassEnded
    /\ trial_container.items # <<>>
    /\ \E k \in DOMAIN trial_container.unpacked_items :
          LET u == trial_container.unpacked_items[k] IN
          /\ WeightEligible(trial_container, u)
          /\ ~Unplaceable(Container(container_l, container_w, container_h, max_weight_kg), u)
          /\ Unplaceable(trial_container, u)

\* ------------------------------------------------------------------------
\* The layout the experimental engine returns
\* ------------------------------------------------------------------------
\* the placed items of the container test_simulation.solve_packing returns,
\* as they are at the return
ReturnedLayout == PlacedObjects(best_container[1].container, best_container[1].objects)

\* two items of the layout intersect (the test of find_best_fit, lines 69-72)
Overlapping(layout) ==
    \E a \in DOMAIN layout : \E b \in DOMAIN layout :
        /\ a < b
        /\ Collision_sim(<<layout[a]>>, get_dimension_sim(layout[b]),
                         layout[b].x, layout[b].y, layout[b].z)

\* C29: in the container test_simulation.solve_packing returns, every placed
\* item has the position and rotation the trial that produced the container
\* gave it, later trials have not changed them, and no two placed items
\* overlap
C29_LayoutKept ==
    pc = "sim_done" =>
        /\ ReturnedLayout = produced
        /\ ~Overlapping(ReturnedLayout)

\* the trial that produced the returned container left no two items
\* overlapping
C29_ProducedDisjoint == pc = "sim_done" => ~Overlapping(produced)

\* ------------------------------------------------------------------------
\* The scorer's bookkeeping
\* ------------------------------------------------------------------------
\* C30: after every scored trial the bookkeeping describes the current best
\* container: best_item_count is its number of placed items,
\* best_utilization its total placed volume, and best_balance_diff its
\* balance deviation less the bonus of its strategy
C30_BookkeepingOfBest ==
    \A b \in BestTrials :
        /\ best_item_count = Len(best_container[1].items)
        /\ best_utilization = packed_vol(best_container[1])
        /\ RatEq(best_balance_diff, ScoreOf(best_container[1], trial_log[b].strat))

\* the same without the volume: the count and the score are those of the
\* current best container
C30_CountAndScoreOfBest ==
    \A b \in BestTrials :
        /\ best_item_count = Len(best_container[1].items)
        /\ RatEq(best_balance_diff, ScoreOf(best_container[1], trial_log[b].strat))

====
